---------------------------- MODULE Spec2Model ----------------------------
(***************************************************************************)
(* Plan-capability-gated export / branding pipeline of the indexator       *)
(* frontend: the export route, the plan-capability table, the              *)
(* brand-settings routes, the plan switch and the logo path normaliser.    *)
(*                                                                         *)
(* Strings are sequences of one-character strings, so that length, prefix, *)
(* lower-casing and URL parsing are computed as the code computes them.    *)
(* A JavaScript value is a record [t, v]: t is its typeof-like tag and v   *)
(* the characters of a string (or of a number's decimal form).             *)
(***************************************************************************)
EXTENDS Integers, Sequences, FiniteSets, TLC

VARIABLES users, audits, brand, cur, probe, sites, gsc, accounts

vars == <<users, audits, brand, cur, probe, sites, gsc, accounts>>

\* the records of the indexing side: Site rows, the Search Console columns of
\* User, and the OAuth Account rows
indexing == <<sites, gsc, accounts>>

-----------------------------------------------------------------------------
(* JavaScript values *)

JsUndef == [t |-> "undefined", v |-> <<>>]

JsNull == [t |-> "null", v |-> <<>>]

JsStr(s) == [t |-> "string", v |-> s]

JsNum(digits) == [t |-> "number", v |-> digits]

\* an object or a function, named by the expression that yields it
JsObject(name) == [t |-> "object", v |-> name]

\* JavaScript truthiness of a value (!x is its negation)
Truthy(x) ==
  CASE x.t = "string" -> x.v # <<>>
    [] x.t = "number" -> x.v # <<"0">>
    [] x.t = "object" -> TRUE
    [] OTHER -> FALSE

\* String(x), as `new URL(x, base)` coerces its first argument
ToStr(x) ==
  CASE x.t = "undefined" -> <<"u", "n", "d", "e", "f", "i", "n", "e", "d">>
    [] x.t = "null" -> <<"n", "u", "l", "l">>
    [] OTHER -> x.v

\* a || b
JsOr(a, b) == IF Truthy(a) THEN a ELSE b

-----------------------------------------------------------------------------
(* Characters and strings *)

UpperSeq == <<"A","B","C","D","E","F","G","H","I","J","K","L","M",
              "N","O","P","Q","R","S","T","U","V","W","X","Y","Z">>

LowerSeq == <<"a","b","c","d","e","f","g","h","i","j","k","l","m",
              "n","o","p","q","r","s","t","u","v","w","x","y","z">>

Upper == {UpperSeq[i] : i \in 1..26}

Lower == {LowerSeq[i] : i \in 1..26}

Digit == {"0","1","2","3","4","5","6","7","8","9"}

LowerOf(c) ==
  IF c \in Upper THEN LowerSeq[CHOOSE i \in 1..26 : UpperSeq[i] = c] ELSE c

\* String.prototype.toLowerCase on ASCII text
ToLowerCase(s) == [i \in 1..Len(s) |-> LowerOf(s[i])]

\* String.prototype.startsWith
StartsWith(s, p) == Len(s) >= Len(p) /\ SubSeq(s, 1, Len(p)) = p

\* String.prototype.slice(n): the text after the first n characters
SliceFrom(s, n) == SubSeq(s, n + 1, Len(s))

Min(S) == CHOOSE x \in S : \A y \in S : x <= y

Max(S) == CHOOSE x \in S : \A y \in S : x >= y

\* n copies of the character c
Repeat(c, n) == [i \in 1..n |-> c]

-----------------------------------------------------------------------------
(* new URL(input, "https://placeholder.local").pathname, after the WHATWG  *)
(* URL parser.  Not modelled, and absent from every input of the model:    *)
(* IPv6 literals, percent-escapes and non-ASCII text in the host, hex or   *)
(* octal IPv4 numbers, Windows drive letters of file: URLs, and characters *)
(* outside ASCII.                                                          *)

C0Space == {" ", "\t", "\n", "\r"}

TabNewline == {"\t", "\n", "\r"}

RECURSIVE StripLeading(_)
StripLeading(s) ==
  IF s # <<>> /\ s[1] \in C0Space THEN StripLeading(Tail(s)) ELSE s

RECURSIVE StripTrailing(_)
StripTrailing(s) ==
  IF s # <<>> /\ s[Len(s)] \in C0Space
  THEN StripTrailing(SubSeq(s, 1, Len(s) - 1))
  ELSE s

NotTabNewline(c) == c \notin TabNewline

\* the parser's preprocessing: strip leading and trailing C0-or-space,
\* then remove every tab and newline
UrlClean(s) == SelectSeq(StripTrailing(StripLeading(s)), NotTabNewline)

\* the text before the first character of `stops`
CutAt(s, stops) ==
  LET idx == {i \in 1..Len(s) : s[i] \in stops}
  IN  IF idx = {} THEN s ELSE SubSeq(s, 1, Min(idx) - 1)

\* the text from the first character of `stops` on
FromCut(s, stops) ==
  LET idx == {i \in 1..Len(s) : s[i] \in stops}
  IN  IF idx = {} THEN <<>> ELSE SubSeq(s, Min(idx), Len(s))

RECURSIVE SplitOn(_, _)
SplitOn(s, seps) ==
  LET idx == {i \in 1..Len(s) : s[i] \in seps}
  IN  IF idx = {} THEN <<s>>
      ELSE <<SubSeq(s, 1, Min(idx) - 1)>>
             \o SplitOn(SubSeq(s, Min(idx) + 1, Len(s)), seps)

RECURSIVE SkipLeading(_, _)
SkipLeading(s, cs) ==
  IF s # <<>> /\ s[1] \in cs THEN SkipLeading(Tail(s), cs) ELSE s

SchemeChars == Lower \cup Upper \cup Digit \cup {"+", "-", "."}

\* scheme start state / scheme state: the index of the ":" that ends a
\* scheme, 0 when the input has no scheme
SchemeColon(s) ==
  IF s # <<>> /\ s[1] \in (Lower \cup Upper)
  THEN LET idx == {i \in 2..Len(s) :
                     s[i] = ":" /\ \A j \in 2..(i - 1) : s[j] \in SchemeChars}
       IN  IF idx = {} THEN 0 ELSE Min(idx)
  ELSE 0

SpecialSchemes == {<<"h", "t", "t", "p">>, <<"h", "t", "t", "p", "s">>, <<"f", "t", "p">>, <<"w", "s">>, <<"w", "s", "s">>, <<"f", "i", "l", "e">>}

BaseScheme == <<"h", "t", "t", "p", "s">>

FileScheme == <<"f", "i", "l", "e">>

SingleDotSegments == {<<".">>, <<"%", "2", "e">>}

DoubleDotSegments == {<<".", ".">>, <<".", "%", "2", "e">>, <<"%", "2", "e", ".">>, <<"%", "2", "e", "%", "2", "e">>}

\* the path percent-encode set, as far as the model's characters go
PercentEncodeChar(c) ==
  CASE c = " " -> <<"%", "2", "0">>
    [] c = "\"" -> <<"%", "2", "2">>
    [] c = "<" -> <<"%", "3", "C">>
    [] c = ">" -> <<"%", "3", "E">>
    [] OTHER -> <<c>>

RECURSIVE PercentEncodePath(_)
PercentEncodePath(s) ==
  IF s = <<>> THEN <<>>
  ELSE PercentEncodeChar(s[1]) \o PercentEncodePath(Tail(s))

\* shorten a (non-file) path
Shorten(path) ==
  IF path = <<>> THEN path ELSE SubSeq(path, 1, Len(path) - 1)

\* path state: fold the "/"-separated parts into the URL's path
RECURSIVE PathSegments(_, _, _)
PathSegments(parts, k, acc) ==
  IF k > Len(parts) THEN acc
  ELSE LET p == parts[k]
           last == (k = Len(parts))
           trail == IF last THEN << <<>> >> ELSE <<>>
       IN  PathSegments(parts, k + 1,
             IF ToLowerCase(p) \in DoubleDotSegments THEN Shorten(acc) \o trail
             ELSE IF ToLowerCase(p) \in SingleDotSegments THEN acc \o trail
             ELSE Append(acc, PercentEncodePath(p)))

\* the URL path serializer
RECURSIVE SerializePath(_)
SerializePath(path) ==
  IF path = <<>> THEN <<>>
  ELSE <<"/">> \o path[1] \o SerializePath(Tail(path))

PathSeps(special) == IF special THEN {"/", "\\"} ELSE {"/"}

\* path state over the text q (query and fragment already cut off)
PathOf(q, special) ==
  SerializePath(PathSegments(SplitOn(q, PathSeps(special)), 1, <<>>))

RECURSIVE DecValue(_)
DecValue(ds) ==
  IF ds = <<>> THEN 0
  ELSE 10 * DecValue(SubSeq(ds, 1, Len(ds) - 1))
         + (CHOOSE n \in 0..9 : <<"0","1","2","3","4","5","6","7","8","9">>[n + 1] = ds[Len(ds)])

AllDigits(s) == \A i \in 1..Len(s) : s[i] \in Digit

ForbiddenHostChars(special) ==
  {" ", "#", "/", ":", "<", ">", "?", "@", "[", "\\", "]", "^", "|"}
    \cup (IF special THEN {"%"} ELSE {})

\* the labels of a host, a single trailing empty label dropped
HostLabels(labels) ==
  IF Len(labels) > 1 /\ labels[Len(labels)] = <<>>
  THEN SubSeq(labels, 1, Len(labels) - 1)
  ELSE labels

\* a host that ends in a number is an IPv4 address: decimal parts, four at most
Ipv4Ok(ls) ==
  (ls[Len(ls)] # <<>> /\ AllDigits(ls[Len(ls)])) =>
    (Len(ls) <= 4 /\ \A i \in 1..Len(ls) : ls[i] # <<>> /\ AllDigits(ls[i]))

\* host parser: failure or not (the host itself is never used)
HostOk(h, special) ==
  /\ \A i \in 1..Len(h) : h[i] \notin ForbiddenHostChars(special)
  /\ (special /\ h # <<>>) => Ipv4Ok(HostLabels(SplitOn(h, {"."})))

PortOk(p) == AllDigits(p) /\ (p # <<>> => Len(p) <= 6 /\ DecValue(p) <= 65535)

UrlFailure == [ok |-> FALSE, pathname |-> <<>>]

UrlPath(p) == [ok |-> TRUE, pathname |-> p]

\* the text after the last "@" of an authority (the credentials dropped)
HostPort(auth) ==
  IF \A i \in 1..Len(auth) : auth[i] # "@" THEN auth
  ELSE SubSeq(auth, Max({i \in 1..Len(auth) : auth[i] = "@"}) + 1, Len(auth))

\* host state and port state: whether the host and port parse
HostPortOk(hasAt, host, colon, special, emptyHostOk) ==
  /\ host # <<>> \/ (emptyHostOk /\ ~hasAt /\ colon = <<>>)
  /\ HostOk(host, special)
  /\ PortOk(IF colon = <<>> THEN <<>> ELSE Tail(colon))

\* path start state: q is what follows the authority, up to "?" or "#"
PathAfterAuthority(q, special) ==
  IF q = <<>> THEN (IF special THEN <<"/">> ELSE <<>>) ELSE PathOf(Tail(q), special)

AuthorityParts(auth, hostport, q, special, emptyHostOk) ==
  IF HostPortOk(Len(hostport) < Len(auth), CutAt(hostport, {":"}),
                FromCut(hostport, {":"}), special, emptyHostOk)
  THEN UrlPath(PathAfterAuthority(q, special))
  ELSE UrlFailure

AuthorityAndRest(auth, rest, special, emptyHostOk) ==
  AuthorityParts(auth, HostPort(auth), CutAt(rest, {"?", "#"}), special, emptyHostOk)

\* authority state, host state, port state, path start state.
\* t is the input after the slashes that introduce the authority.
AuthorityThenPath(t, special, emptyHostOk) ==
  AuthorityAndRest(CutAt(t, PathSeps(special) \cup {"?", "#"}),
                   FromCut(t, PathSeps(special) \cup {"?", "#"}),
                   special, emptyHostOk)

\* path state on the text r, which is cut at its query or fragment
PathUpToQuery(r, special) == UrlPath(PathOf(CutAt(r, {"?", "#"}), special))

\* relative state and relative slash state against https://placeholder.local
RelativeToBase(r) ==
  IF r # <<>> /\ r[1] \in {"/", "\\"}
  THEN IF Len(r) >= 2 /\ r[2] \in {"/", "\\"}
       THEN AuthorityThenPath(SkipLeading(r, {"/", "\\"}), TRUE, FALSE)
       ELSE PathUpToQuery(Tail(r), TRUE)
  ELSE PathUpToQuery(r, TRUE)

\* file state, file slash state, file host state
FileUrl(rest) ==
  IF Len(rest) >= 2 /\ rest[1] \in {"/", "\\"} /\ rest[2] \in {"/", "\\"}
  THEN AuthorityThenPath(SliceFrom(rest, 2), TRUE, TRUE)
  ELSE PathUpToQuery(IF rest # <<>> /\ rest[1] \in {"/", "\\"} THEN Tail(rest) ELSE rest,
                     TRUE)

\* a URL of a scheme that is not special: path or authority state, or an
\* opaque path
NonSpecialUrl(rest) ==
  IF rest # <<>> /\ rest[1] = "/"
  THEN IF Len(rest) >= 2 /\ rest[2] = "/"
       THEN AuthorityThenPath(SliceFrom(rest, 2), FALSE, TRUE)
       ELSE PathUpToQuery(Tail(rest), FALSE)
  ELSE UrlPath(CutAt(rest, {"?", "#"}))

\* the states after the scheme state found `scheme` before `rest`
AfterScheme(scheme, rest) ==
  IF scheme = FileScheme THEN FileUrl(rest)
  ELSE IF scheme = BaseScheme THEN RelativeToBase(rest)
  ELSE IF scheme \in SpecialSchemes
       THEN AuthorityThenPath(SkipLeading(rest, {"/", "\\"}), TRUE, FALSE)
  ELSE NonSpecialUrl(rest)

\* s is the cleaned input and c the index of the colon after its scheme
ParseFrom(s, c) ==
  IF c = 0 THEN RelativeToBase(s)
  ELSE AfterScheme(ToLowerCase(SubSeq(s, 1, c - 1)), SliceFrom(s, c))

ParseCleaned(s) == ParseFrom(s, SchemeColon(s))

\* new URL(input, "https://placeholder.local"): failure (a TypeError) or
\* the URL's pathname
ParseUrl(input) == ParseCleaned(UrlClean(input))

-----------------------------------------------------------------------------
(* lib/logo-storage.ts *)

FilenameChars == Lower \cup Upper \cup Digit \cup {"_", ".", "-"}

\* FILENAME_RE.test(raw)
FILENAME_RE(raw) == raw # <<>> /\ \A i \in 1..Len(raw) : raw[i] \in FilenameChars

ApiLogoPrefix == <<"/", "a", "p", "i", "/", "u", "p", "l", "o", "a", "d", "/", "l", "o", "g", "o", "/">>

UploadsPrefix == <<"/", "u", "p", "l", "o", "a", "d", "s", "/">>

\* FILENAME_RE.test(raw) ? raw : null
\* faulty variant: the name is not tested against FILENAME_RE
CheckedFilenameUntested(raw) == IF raw # <<>> THEN JsStr(raw) ELSE JsNull

CheckedFilename(raw) == IF FILENAME_RE(raw) THEN JsStr(raw) ELSE JsNull

\* the filename of a parsed URL, by its pathname
FilenameOfUrl(url) ==
  IF ~url.ok THEN JsNull
  ELSE IF StartsWith(url.pathname, ApiLogoPrefix)
       THEN CheckedFilename(SliceFrom(url.pathname, Len(ApiLogoPrefix)))
  ELSE IF StartsWith(url.pathname, UploadsPrefix)
       THEN CheckedFilename(SliceFrom(url.pathname, Len(UploadsPrefix)))
  ELSE JsNull

extractLogoFilenameFromUrl(logoUrl) ==
  IF ~Truthy(logoUrl) THEN JsNull ELSE FilenameOfUrl(ParseUrl(ToStr(logoUrl)))

\* faulty variant: the path is built under a directory the function does
\* not read back
ApiLogoPathElsewhere(filename) ==
  IF Truthy(filename) THEN JsStr(<<"/", "a", "p", "i", "/", "l", "o", "g", "o", "/">> \o filename.v) ELSE JsNull

\* filename ? `/api/upload/logo/${filename}` : null
ApiLogoPath(filename) ==
  IF Truthy(filename) THEN JsStr(ApiLogoPrefix \o filename.v) ELSE JsNull

toApiLogoPath(logoUrl) == ApiLogoPath(extractLogoFilenameFromUrl(logoUrl))

-----------------------------------------------------------------------------
(* getPlanCapabilities (lib/plan-capabilities) and the seeded plans *)

PDF == <<"p", "d", "f">>

HTML == <<"h", "t", "m", "l">>

DOCX == <<"d", "o", "c", "x">>

FREE == <<"f", "r", "e", "e">>

PRO == <<"p", "r", "o">>

AGENCY == <<"a", "g", "e", "n", "c", "y">>

\* Array.prototype.includes
Includes(arr, x) == \E i \in 1..Len(arr) : arr[i] = x

\* the elements of an array, as a set
Elements(arr) == {arr[i] : i \in 1..Len(arr)}

SUPPORTED_FORMATS == <<PDF, HTML, DOCX>>

\* faulty variant: the plan id is compared without regard to case
getPlanCapabilitiesAnyCase(planId) ==
  LET isAgency == (planId.t = "string" /\ ToLowerCase(planId.v) = AGENCY)
      isFree == (planId.t = "string" /\ ToLowerCase(planId.v) = FREE)
  IN  [allowedExportFormats |-> IF isAgency THEN <<PDF, HTML, DOCX>> ELSE <<PDF>>,
       canUseBranding |-> isAgency,
       showWatermark |-> isFree,
       unlimitedAudits |-> isAgency]

\* faulty variant: every plan but agency is watermarked
getPlanCapabilitiesWatermarkAll(planId) ==
  LET isAgency == (planId = JsStr(AGENCY))
  IN  [allowedExportFormats |-> IF isAgency THEN <<PDF, HTML, DOCX>> ELSE <<PDF>>,
       canUseBranding |-> isAgency,
       showWatermark |-> ~isAgency,
       unlimitedAudits |-> isAgency]

getPlanCapabilities(planId) ==
  LET isAgency == (planId = JsStr(AGENCY))
      isFree == (planId = JsStr(FREE))
  IN  [allowedExportFormats |-> IF isAgency THEN <<PDF, HTML, DOCX>> ELSE <<PDF>>,
       canUseBranding |-> isAgency,
       showWatermark |-> isFree,
       unlimitedAudits |-> isAgency]

\* the Plan table after prisma/seed.ts
Plans ==
  { [id |-> FREE, whiteLabel |-> FALSE, autoIndexing |-> FALSE],
    [id |-> PRO, whiteLabel |-> FALSE, autoIndexing |-> TRUE],
    [id |-> AGENCY, whiteLabel |-> TRUE, autoIndexing |-> TRUE] }

PlanIds == {p.id : p \in Plans}

\* faulty variant: the plan is not looked up
PlanExistsUnchecked(id) == TRUE

\* prisma.plan.findUnique({ where: { id } }) finds a row
PlanExists(id) == \E p \in Plans : p.id = id

-----------------------------------------------------------------------------
(* Persisted records and the callers *)

\* u1 is the caller whose plan and brand settings change; u2 owns records
\* of its own and only reads.
UserIds == {"u1", "u2"}

\* session?.user is missing
NoSession == "none"

\* a session whose user row does not exist
GhostSession == "ghost"

\* prisma.user.findUnique found a row
UserExists(s) == s \in DOMAIN users

Origin == <<"h", "t", "t", "p", "s", ":", "/", "/", "a", "p", "p", ".", "e", "x", "a", "m", "p", "l", "e">>

OctetStream == <<"a", "p", "p", "l", "i", "c", "a", "t", "i", "o", "n", "/", "o", "c", "t", "e", "t", "-", "s", "t", "r", "e", "a", "m">>

LangUk == <<"u", "k">>

LangDe == <<"d", "e">>

LangEn == <<"e", "n">>

\* a cached audit payload, JSON.stringify'd
ResultJson(n) == <<"{", "\"", "s", "c", "o", "r", "e", "\"", ":">> \o n \o <<"}">>

NoBrand ==
  [exists |-> FALSE, companyName |-> JsNull, logoUrl |-> JsNull,
   primaryColor |-> JsNull, accentColor |-> JsNull]

AcmeName == <<"A", "c", "m", "e">>

InitUsers == [u \in UserIds |-> [planId |-> IF u = "u1" THEN JsStr(FREE) ELSE JsStr(AGENCY)]]

InitAudits ==
  [a \in {"a1", "a2", "a3", "a4", "a5"} |->
     CASE a = "a1" -> [userId |-> "u1", fastApiId |-> "f1",
                       resultJson |-> JsStr(ResultJson(<<"7", "1">>)), language |-> JsStr(LangUk)]
       [] a = "a2" -> [userId |-> "u2", fastApiId |-> "f2",
                       resultJson |-> JsStr(ResultJson(<<"5">>)), language |-> JsStr(LangUk)]
       [] a = "a3" -> [userId |-> "u1", fastApiId |-> "f3",
                       resultJson |-> JsNull, language |-> JsStr(LangUk)]
       [] a = "a4" -> [userId |-> "u1", fastApiId |-> "f4",
                       resultJson |-> JsStr(<<>>), language |-> JsNull]
       [] a = "a5" -> [userId |-> "u1", fastApiId |-> "f5",
                       resultJson |-> JsStr(ResultJson(<<"0">>)), language |-> JsNull] ]

InitBrand ==
  [u \in UserIds |->
     IF u = "u2"
     THEN [exists |-> TRUE, companyName |-> JsStr(<<"G", "l", "o", "b", "e", "x">>),
           logoUrl |-> JsStr(<<"h", "t", "t", "p", ":", "/", "/", "c", "d", "n", ".", "e", "x", "a", "m", "p", "l", "e", "/", "g", ".", "p", "n", "g">>),
           primaryColor |-> JsStr(<<"#", "1", "1", "2", "2", "3", "3">>), accentColor |-> JsNull]
     ELSE NoBrand]

Idle == [op |-> "none", pc |-> "done", session |-> NoSession, status |-> 0, error |-> ""]

NoProbe == [fn |-> "none"]

\* the Site rows: s1 and s3 are u1's, s2 is u2's
InitSites ==
  [id \in {"s1", "s2", "s3"} |->
     [userId |-> IF id = "s2" THEN "u2" ELSE "u1",
      autoIndexGoogle |-> (id = "s2"),
      autoIndexBing |-> FALSE]]

Connected == [gscConnected |-> TRUE, gscConnectedAt |-> JsStr(<<"2", "0", "2", "4", "-", "0", "5", "-", "0", "1">>)]

\* User.gscConnected and User.gscConnectedAt
InitGsc == [u \in UserIds |-> Connected]

\* no Account row
NoAccount ==
  [exists |-> FALSE, provider |-> "", access_token |-> JsNull, refresh_token |-> JsNull,
   expires_at |-> JsNull, scope |-> JsNull]

\* an Account row of the google provider with its tokens
LinkedAccount ==
  [exists |-> TRUE, provider |-> "google", access_token |-> JsStr(<<"y", "a", "2", "9", ".", "a">>),
   refresh_token |-> JsStr(<<"1", "/", "/", "r">>), expires_at |-> JsNum(<<"1", "7", "1", "4", "5", "6", "0", "0", "0", "0">>),
   scope |-> JsStr(<<"o", "p", "e", "n", "i", "d", " ", "w", "e", "b", "m", "a", "s", "t", "e", "r", "s">>)]

\* an Account row of the google provider whose tokens are gone
ClearedAccount ==
  [LinkedAccount EXCEPT !.access_token = JsNull, !.refresh_token = JsNull,
                        !.expires_at = JsNull, !.scope = JsNull]

\* the google Account row of each user
InitAccounts == [u \in UserIds |-> LinkedAccount]

Init ==
  /\ users = InitUsers
  /\ audits = InitAudits
  /\ brand = InitBrand
  /\ cur = Idle
  /\ probe = NoProbe
  /\ sites = InitSites
  /\ gsc = InitGsc
  /\ accounts = InitAccounts

\* as Init, but u1 may have signed in without google, or have a google
\* account whose tokens were cleared before
InitIndexing ==
  /\ users = InitUsers
  /\ audits = InitAudits
  /\ brand = InitBrand
  /\ cur = Idle
  /\ probe = NoProbe
  /\ sites = InitSites
  /\ gsc = InitGsc
  /\ accounts \in {[InitAccounts EXCEPT !["u1"] = a] :
                     a \in {LinkedAccount, ClearedAccount, NoAccount}}

-----------------------------------------------------------------------------
(* app/api/audit/[id]/export/route.ts *)

\* JSON.parse on the cached payloads, which have the form {"score":N}.
\* Any other text is a SyntaxError here.
JSONparse(text) ==
  LET prefix == <<"{", "\"", "s", "c", "o", "r", "e", "\"", ":">>
      digits == SubSeq(text, Len(prefix) + 1, Len(text) - 1)
  IN  IF /\ StartsWith(text, prefix)
         /\ Len(text) > Len(prefix) + 1
         /\ text[Len(text)] = "}"
         /\ AllDigits(digits)
         /\ (Len(digits) > 1 => digits[1] # "0")
      THEN [ok |-> TRUE, value |-> [score |-> DecValue(digits)]]
      ELSE [ok |-> FALSE, value |-> [score |-> 0]]

\* String(b) of a boolean
BoolString(b) == IF b THEN <<"t", "r", "u", "e">> ELSE <<"f", "a", "l", "s", "e">>

\* Response.ok
ResponseOk(status) == status >= 200 /\ status <= 299

NoAudit ==
  [userId |-> "", fastApiId |-> "", resultJson |-> JsNull, language |-> JsNull]

\* no response received (yet)
NoResponse == [status |-> -1, contentType |-> JsNull, disposition |-> JsNull]

\* fastapiFetch threw: the report service was unreachable
Unreachable == [status |-> 0, contentType |-> JsNull, disposition |-> JsNull]

NoBrandObject ==
  [defined |-> FALSE, company_name |-> JsUndef, primary_color |-> JsUndef,
   accent_color |-> JsUndef, logo_url |-> JsUndef]

\* x ? x : (key left out)
Keep(x) == IF Truthy(x) THEN x ELSE JsUndef

\* the absolute logo URL the report service is given
ExportLogoUrl(logoUrl) ==
  IF StartsWith(logoUrl, <<"h", "t", "t", "p", ":", "/", "/">>) \/ StartsWith(logoUrl, <<"h", "t", "t", "p", "s", ":", "/", "/">>)
  THEN logoUrl
  ELSE Origin \o (IF StartsWith(logoUrl, <<"/">>) THEN logoUrl ELSE <<"/">> \o logoUrl)

\* faulty variant: the stored brand is used whatever the plan allows
ExportBrandUngated(s, capabilities) ==
  IF ~brand[s].exists THEN NoBrandObject
  ELSE [defined |-> TRUE, company_name |-> Keep(brand[s].companyName),
        primary_color |-> Keep(brand[s].primaryColor),
        accent_color |-> Keep(brand[s].accentColor),
        logo_url |-> IF Truthy(brand[s].logoUrl)
                     THEN JsStr(ExportLogoUrl(brand[s].logoUrl.v))
                     ELSE JsUndef]

\* the `brand` object of the handler, or undefined (defined = FALSE)
ExportBrand(s, capabilities) ==
  IF ~capabilities.canUseBranding \/ ~brand[s].exists THEN NoBrandObject
  ELSE LET b == brand[s]
           obj == [company_name |-> Keep(b.companyName),
                   primary_color |-> Keep(b.primaryColor),
                   accent_color |-> Keep(b.accentColor),
                   logo_url |-> IF Truthy(b.logoUrl)
                                THEN JsStr(ExportLogoUrl(b.logoUrl.v))
                                ELSE JsUndef]
       IN  IF \A k \in DOMAIN obj : obj[k] = JsUndef THEN NoBrandObject
           ELSE [defined |-> TRUE, company_name |-> obj.company_name,
                 primary_color |-> obj.primary_color,
                 accent_color |-> obj.accent_color, logo_url |-> obj.logo_url]

\* the query parameters of the download request
DownloadParams(format, lang, showWatermark, b) ==
  [format |-> JsStr(format),
   lang |-> Keep(lang),
   show_watermark |-> JsStr(BoolString(showWatermark)),
   company_name |-> IF b.defined THEN Keep(b.company_name) ELSE JsUndef,
   primary_color |-> IF b.defined THEN Keep(b.primary_color) ELSE JsUndef,
   accent_color |-> IF b.defined THEN Keep(b.accent_color) ELSE JsUndef,
   logo_url |-> IF b.defined THEN Keep(b.logo_url) ELSE JsUndef]

DownloadCall(fastApiId, params) ==
  [endpoint |-> "/api/audit/:fastApiId/download", method |-> "GET",
   fastApiId |-> fastApiId, params |-> params]

\* faulty variant: the audit's own language is not used when the request names none
GenerateBodyNoAuditLanguage(format, audit, lang, showWatermark, b) ==
  [format |-> JsStr(format),
   audit |-> JSONparse(audit.resultJson.v).value,
   language |-> JsOr(lang, JsStr(LangEn)),
   show_watermark |-> showWatermark,
   brand |-> b]

\* the JSON body of the regeneration request
GenerateBody(format, audit, lang, showWatermark, b) ==
  [format |-> JsStr(format),
   audit |-> JSONparse(audit.resultJson.v).value,
   language |-> JsOr(lang, JsOr(audit.language, JsStr(LangEn))),
   show_watermark |-> showWatermark,
   brand |-> b]

GenerateCall(body) ==
  [endpoint |-> "/api/report/generate", method |-> "POST", body |-> body]

\* the handler's locals, before any is set
ExportNew(s) ==
  [op |-> "export", pc |-> "done", session |-> s, status |-> 0, error |-> "",
   id |-> "", format |-> <<>>, lang |-> JsNull, planId |-> JsUndef,
   audit |-> NoAudit, brandObj |-> NoBrandObject, showWatermark |-> FALSE,
   calls |-> <<>>, dl |-> NoResponse, gen |-> NoResponse,
   contentType |-> JsUndef, disposition |-> JsUndef]

\* NextResponse.json({ error }, { status })
Fail(r, status, error) ==
  [r EXCEPT !.pc = "done", !.status = status, !.error = error]

\* new NextResponse(blob, { headers }) from an upstream response
Stream(r, res) ==
  [r EXCEPT !.pc = "done", !.status = 200,
            !.contentType = JsOr(res.contentType, JsStr(OctetStream)),
            !.disposition = JsOr(res.disposition, JsStr(<<>>))]

\* faulty variant: the plan's formats are not consulted, only the supported ones
ExportFormatAllowedUngated(capabilities, format) ==
  Includes(SUPPORTED_FORMATS, format)

\* capabilities.allowedExportFormats.includes(format)
ExportFormatAllowed(capabilities, format) ==
  Includes(capabilities.allowedExportFormats, format)

\* faulty variant: the owner of the audit is not compared with the caller
ExportAuditFoundAnyOwner(s, id) == id \in DOMAIN audits

\* audit && audit.userId === session.user.id
ExportAuditFound(s, id) == id \in DOMAIN audits /\ audits[id].userId = s

\* the handler up to its first await of the report service
ExportBegin(s, id, rawFormat, lang) ==
  LET requestedFormat == ToLowerCase(JsOr(rawFormat, JsStr(PDF)).v)
      r0 == [ExportNew(s) EXCEPT !.id = id, !.format = requestedFormat, !.lang = lang]
      planId == users[s].planId
      capabilities == getPlanCapabilities(planId)
      r1 == [r0 EXCEPT !.planId = planId]
      audit == audits[id]
      b == ExportBrand(s, capabilities)
  IN  IF s = NoSession THEN Fail(ExportNew(s), 401, "Unauthorized")
      ELSE IF ~Includes(SUPPORTED_FORMATS, requestedFormat)
           THEN Fail(r0, 400, "Unsupported export format")
      ELSE IF ~UserExists(s) THEN Fail(r0, 404, "User not found")
      ELSE IF ~ExportFormatAllowed(capabilities, requestedFormat)
           THEN Fail(r1, 403, "Your plan allows PDF export only")
      ELSE IF ~ExportAuditFound(s, id) THEN Fail(r1, 404, "Not found")
      ELSE [r1 EXCEPT !.pc = "awaitDownload",
                      !.audit = audit,
                      !.brandObj = b,
                      !.showWatermark = capabilities.showWatermark,
                      !.calls = <<DownloadCall(audit.fastApiId,
                                   DownloadParams(requestedFormat, lang,
                                                  capabilities.showWatermark, b))>>]

\* faulty variant: a 404 regenerates whether or not a payload is cached
ExportRegeneratesUncached(res, audit) == res.status = 404

\* faulty variant: every failed download regenerates from the cached payload
ExportRegeneratesOnAnyFailure(res, audit) ==
  (res.status < 200 \/ res.status > 299) /\ Truthy(audit.resultJson)

\* fastapiRes.status === 404 && audit.resultJson
ExportRegenerates(res, audit) == res.status = 404 /\ Truthy(audit.resultJson)

\* the handler from the download response to its next await or its response
ExportAfterDownload(r, res) ==
  LET r1 == [r EXCEPT !.dl = res]
  IN  IF res = Unreachable THEN Fail(r1, 500, "Internal Server Error")
      ELSE IF ExportRegenerates(res, r.audit)
           THEN IF ~JSONparse(r.audit.resultJson.v).ok
                THEN Fail(r1, 500, "Internal Server Error")
                ELSE [r1 EXCEPT !.pc = "awaitGenerate",
                                !.calls = Append(r.calls,
                                   GenerateCall(GenerateBody(r.format, r.audit, r.lang,
                                                             r.showWatermark, r.brandObj)))]
      ELSE IF ~ResponseOk(res.status) THEN Fail(r1, res.status, "Export failed")
      ELSE Stream(r1, res)

\* the handler from the regeneration response to its response
ExportAfterGenerate(r, res) ==
  LET r1 == [r EXCEPT !.gen = res]
  IN  IF res = Unreachable THEN Fail(r1, 500, "Internal Server Error")
      ELSE IF ~ResponseOk(res.status) THEN Fail(r1, res.status, "Report generation failed")
      ELSE Stream(r1, res)

\* faulty variant: the cached payload is dropped once it has been sent off
ExportWritesDropCache ==
  /\ audits' = IF cur'.pc = "awaitGenerate"
               THEN [audits EXCEPT ![cur'.id].resultJson = JsNull]
               ELSE audits
  /\ UNCHANGED <<users, brand, sites, gsc, accounts>>

\* what the handler writes to the database: nothing
ExportWrites == UNCHANGED <<users, audits, brand, sites, gsc, accounts>>

-----------------------------------------------------------------------------
(* app/api/brand-settings (GET, PUT), its delete-logo route, and           *)
(* app/api/user/plan (GET, PATCH)                                          *)

MaxCompanyName == 100

\* faulty variant: every paid plan passes the gate
BrandGatePaid(s) == UserExists(s) /\ users[s].planId # JsStr(FREE)

\* faulty variant: the plan is the one the user had when signing in
BrandGateAtSignIn(s) == UserExists(s) /\ InitUsers[s].planId = JsStr(AGENCY)

\* !(!user || user.planId !== "agency")
BrandGate(s) == UserExists(s) /\ users[s].planId = JsStr(AGENCY)

\* the plan id the handler read, undefined when it read none
PlanRead(s) == IF s # NoSession /\ UserExists(s) THEN users[s].planId ELSE JsUndef

NoBody == [valid |-> FALSE, companyName |-> JsUndef, logoUrl |-> JsUndef]

BrandNew(op, s) ==
  [op |-> op, pc |-> "done", session |-> s, status |-> 0, error |-> "",
   planId |-> PlanRead(s), body |-> NoBody, data |-> NoBrand]

\* the 401 and 403 answers shared by the three brand handlers
BrandReject(op, s) ==
  IF s = NoSession THEN Fail(BrandNew(op, s), 401, "Unauthorized")
  ELSE Fail(BrandNew(op, s), 403, "Agency plan required")

\* GET: NextResponse.json(branding)
BrandGetResponse(s) ==
  IF s = NoSession \/ ~BrandGate(s) THEN BrandReject("brandGet", s)
  ELSE [BrandNew("brandGet", s) EXCEPT !.status = 200, !.data = brand[s]]

\* the companyName check of PUT fails
CompanyNameInvalid(companyName) ==
  /\ companyName # JsUndef
  /\ companyName # JsNull
  /\ (companyName.t # "string" \/ Len(companyName.v) > MaxCompanyName)

\* logoUrl !== undefined && logoUrl !== null && logoUrl !== ""
LogoUrlGiven(logoUrl) ==
  logoUrl # JsUndef /\ logoUrl # JsNull /\ logoUrl # JsStr(<<>>)

\* faulty variant: the logo URL is validated and then stored as it was sent
NormalizedLogoUrlAsSent(logoUrl) ==
  IF LogoUrlGiven(logoUrl) /\ toApiLogoPath(logoUrl) = JsNull THEN JsNull ELSE logoUrl

\* normalizedLogoUrl
NormalizedLogoUrl(logoUrl) ==
  IF LogoUrlGiven(logoUrl) THEN toApiLogoPath(logoUrl) ELSE logoUrl

\* the columns a created BrandSettings row gets when the write names none
\* (prisma/schema.prisma: optional columns)
BrandCreateDefault == JsNull

\* prisma.brandSettings.upsert: an undefined field is left as it is
BrandUpsert(old, companyName, logoUrl) ==
  IF old.exists
  THEN [old EXCEPT !.companyName = IF companyName = JsUndef THEN @ ELSE companyName,
                   !.logoUrl = IF logoUrl = JsUndef THEN @ ELSE logoUrl]
  ELSE [exists |-> TRUE,
        companyName |-> IF companyName = JsUndef THEN BrandCreateDefault ELSE companyName,
        logoUrl |-> IF logoUrl = JsUndef THEN BrandCreateDefault ELSE logoUrl,
        primaryColor |-> BrandCreateDefault,
        accentColor |-> BrandCreateDefault]

\* faulty variant: the company name is written before the logo is validated
BrandPutRowPartial(s, body, normalized) ==
  IF ~body.valid THEN brand[s]
  ELSE IF CompanyNameInvalid(body.companyName) THEN brand[s]
  ELSE IF LogoUrlGiven(body.logoUrl) /\ ~Truthy(normalized)
       THEN BrandUpsert(brand[s], body.companyName, JsUndef)
  ELSE BrandUpsert(brand[s], body.companyName, normalized)

\* PUT past the plan gate, its body parsed and its logoUrl normalized:
\* the BrandSettings row of s after the handler
BrandPutRow(s, body, normalized) ==
  IF ~body.valid THEN brand[s]
  ELSE IF CompanyNameInvalid(body.companyName) THEN brand[s]
  ELSE IF LogoUrlGiven(body.logoUrl) /\ ~Truthy(normalized) THEN brand[s]
  ELSE BrandUpsert(brand[s], body.companyName, normalized)

\* PUT past the plan gate: the response, given the row the handler leaves
BrandPutResponse(s, body, normalized, row) ==
  IF ~body.valid
  THEN Fail([BrandNew("brandPut", s) EXCEPT !.body = body], 500, "Internal Server Error")
  ELSE IF CompanyNameInvalid(body.companyName)
       THEN Fail([BrandNew("brandPut", s) EXCEPT !.body = body], 400,
                 "Company name must be a string under 100 characters")
  ELSE IF LogoUrlGiven(body.logoUrl) /\ ~Truthy(normalized)
       THEN Fail([BrandNew("brandPut", s) EXCEPT !.body = body], 400, "Invalid logo URL")
  ELSE [BrandNew("brandPut", s) EXCEPT !.body = body, !.status = 200, !.data = row]

\* DELETE: prisma.brandSettings.updateMany({ where: { userId }, data: { logoUrl: null } })
BrandDeleteLogoRow(s) ==
  IF brand[s].exists THEN [brand[s] EXCEPT !.logoUrl = JsNull] ELSE brand[s]

\* PATCH /api/user/plan: the response
PlanSwitchResponse(s, body) ==
  LET r == [op |-> "planSwitch", pc |-> "done", session |-> s, status |-> 0,
            error |-> "", planId |-> body.planId]
  IN  IF s = NoSession THEN Fail([r EXCEPT !.planId = JsUndef], 401, "Unauthorized")
      ELSE IF ~body.valid THEN Fail([r EXCEPT !.planId = JsUndef], 400, "Invalid JSON body")
      ELSE IF ~Truthy(body.planId) \/ body.planId.t # "string"
           THEN Fail(r, 400, "planId is required")
      ELSE IF ~PlanExists(body.planId.v) THEN Fail(r, 404, "Plan not found")
      ELSE IF ~UserExists(s) THEN Fail(r, 500, "Internal Server Error")
      ELSE [r EXCEPT !.status = 200]

\* PATCH /api/user/plan: the User table after the handler
PlanSwitchUsers(s, body) ==
  IF PlanSwitchResponse(s, body).status = 200
  THEN [users EXCEPT ![s].planId = body.planId]
  ELSE users

\* GET /api/user/plan: the response
GetUserPlanResponse(s) ==
  LET r == [op |-> "getPlan", pc |-> "done", session |-> s, status |-> 0,
            error |-> "", planId |-> JsUndef,
            capabilities |-> getPlanCapabilities(JsUndef)]
  IN  IF s = NoSession THEN Fail(r, 401, "Unauthorized")
      ELSE IF ~UserExists(s) THEN Fail(r, 404, "User not found")
      ELSE [r EXCEPT !.status = 200, !.planId = users[s].planId,
                     !.capabilities = getPlanCapabilities(users[s].planId)]

-----------------------------------------------------------------------------
(* Requests and the answers of the report service *)

Sessions == {NoSession, GhostSession, "u1"}

ReadOnlySessions == {"u2"}

ExportFormats == {JsNull, JsStr(PDF), JsStr(HTML), JsStr(<<"D", "O", "C", "X">>), JsStr(<<"x", "m", "l">>)}

ExportLangs == {JsNull, JsStr(LangDe)}

\* the (id, format, lang) a caller asks for; "a9" names no audit
ExportRequests(s) ==
  CASE s = "u1" -> (DOMAIN audits \cup {"a9"}) \X ExportFormats \X ExportLangs
    [] s = "u2" -> {"a1", "a2"} \X {JsNull, JsStr(HTML)} \X {JsNull}
    [] OTHER -> {"a1"} \X {JsNull, JsStr(<<"x", "m", "l">>)} \X {JsNull}

PdfType == <<"a", "p", "p", "l", "i", "c", "a", "t", "i", "o", "n", "/", "p", "d", "f">>

Attachment == <<"a", "t", "t", "a", "c", "h", "m", "e", "n", "t", ";", " ", "f", "i", "l", "e", "n", "a", "m", "e", "=", "r", "e", "p", "o", "r", "t", ".", "p", "d", "f">>

Upstream(status, contentType, disposition) ==
  [status |-> status, contentType |-> contentType, disposition |-> disposition]

\* what fastapiFetch can come back with
UpstreamResponses ==
  {Unreachable,
   Upstream(200, JsStr(PdfType), JsStr(Attachment)),
   Upstream(200, JsNull, JsNull),
   Upstream(403, JsNull, JsNull),
   Upstream(404, JsNull, JsNull),
   Upstream(500, JsStr(<<"a", "p", "p", "l", "i", "c", "a", "t", "i", "o", "n", "/", "j", "s", "o", "n">>), JsNull)}

\* how far past the limit the company names of the requests go
NameOvershoot == 1

LongNames == {Repeat("x", n) : n \in MaxCompanyName..(MaxCompanyName + NameOvershoot)}

CompanyNameInputs ==
  {JsUndef, JsNull, JsNum(<<"7">>), JsStr(AcmeName)} \cup {JsStr(n) : n \in LongNames}

LogoUrlInputs ==
  {JsUndef, JsNull, JsStr(<<>>), JsNum(<<"7">>),
   JsStr(<<"/", "u", "p", "l", "o", "a", "d", "s", "/", "a", ".", "p", "n", "g">>),
   JsStr(<<"/", "a", "p", "i", "/", "u", "p", "l", "o", "a", "d", "/", "l", "o", "g", "o", "/", "b", "-", "2", ".", "s", "v", "g">>),
   JsStr(<<"h", "t", "t", "p", "s", ":", "/", "/", "e", "v", "i", "l", ".", "e", "x", "a", "m", "p", "l", "e", "/", "x", ".", "p", "n", "g">>),
   JsStr(<<"/", "u", "p", "l", "o", "a", "d", "s", "/", "a", " ", "b", ".", "p", "n", "g">>),
   JsStr(<<"/", "e", "t", "c", "/", "p", "a", "s", "s", "w", "d">>)}

Json(companyName, logoUrl) ==
  [valid |-> TRUE, companyName |-> companyName, logoUrl |-> logoUrl]

\* the bodies of PUT: NoBody is a body req.json() cannot parse
PutBodies ==
  {NoBody}
    \cup {Json(c, l) : c \in CompanyNameInputs, l \in {JsUndef, JsStr(<<"/", "u", "p", "l", "o", "a", "d", "s", "/", "a", ".", "p", "n", "g">>), JsStr(<<"/", "e", "t", "c", "/", "p", "a", "s", "s", "w", "d">>)}}
    \cup {Json(c, l) : c \in {JsUndef, JsStr(AcmeName)}, l \in LogoUrlInputs}

PlanSwitchBodies ==
  {[valid |-> FALSE, planId |-> JsUndef]}
    \cup {[valid |-> TRUE, planId |-> p] :
            p \in {JsUndef, JsNum(<<"7">>), JsStr(<<>>), JsStr(FREE), JsStr(PRO),
                   JsStr(AGENCY), JsStr(<<"e", "n", "t", "e", "r", "p", "r", "i", "s", "e">>)}}

-----------------------------------------------------------------------------
(* Actions.  A request starts when the one before it has been answered;    *)
(* the export handler takes one step per await of the report service.      *)

ExportStart(s) ==
  /\ cur.pc = "done"
  /\ \E q \in ExportRequests(s) : cur' = ExportBegin(s, q[1], q[2], q[3])
  /\ ExportWrites
  /\ UNCHANGED probe

ExportDownloadResponse(res) ==
  /\ cur.op = "export"
  /\ cur.pc = "awaitDownload"
  /\ cur' = ExportAfterDownload(cur, res)
  /\ ExportWrites
  /\ UNCHANGED probe

ExportGenerateResponse(res) ==
  /\ cur.op = "export"
  /\ cur.pc = "awaitGenerate"
  /\ cur' = ExportAfterGenerate(cur, res)
  /\ ExportWrites
  /\ UNCHANGED probe

BrandGet(s) ==
  /\ cur.pc = "done"
  /\ cur' = BrandGetResponse(s)
  /\ UNCHANGED <<users, audits, brand, probe, indexing>>

\* the writes and the answer of PUT past the plan gate
BrandPutDone(s, body, normalized, row) ==
  /\ cur' = BrandPutResponse(s, body, normalized, row)
  /\ brand' = [brand EXCEPT ![s] = row]

BrandPutParsed(s, body, normalized) ==
  BrandPutDone(s, body, normalized, BrandPutRow(s, body, normalized))

\* `body` of a refused PUT is the body that was sent, which the handler
\* never reads
BrandPut(s) ==
  /\ cur.pc = "done"
  /\ \E body \in PutBodies :
       IF s = NoSession \/ ~BrandGate(s)
       THEN /\ cur' = [BrandReject("brandPut", s) EXCEPT !.body = body]
            /\ brand' = brand
       ELSE BrandPutParsed(s, body, NormalizedLogoUrl(body.logoUrl))
  /\ UNCHANGED <<users, audits, probe, indexing>>

BrandDeleteLogo(s) ==
  /\ cur.pc = "done"
  /\ IF s = NoSession \/ ~BrandGate(s)
     THEN cur' = BrandReject("brandDeleteLogo", s) /\ brand' = brand
     ELSE /\ cur' = [BrandNew("brandDeleteLogo", s) EXCEPT !.status = 200]
          /\ brand' = [brand EXCEPT ![s] = BrandDeleteLogoRow(s)]
  /\ UNCHANGED <<users, audits, probe, indexing>>

PlanSwitch(s) ==
  /\ cur.pc = "done"
  /\ \E body \in PlanSwitchBodies :
       /\ cur' = PlanSwitchResponse(s, body)
       /\ users' = PlanSwitchUsers(s, body)
  /\ UNCHANGED <<audits, brand, probe, indexing>>

GetUserPlan(s) ==
  /\ cur.pc = "done"
  /\ cur' = GetUserPlanResponse(s)
  /\ UNCHANGED <<users, audits, brand, probe, indexing>>

Next ==
  \/ \E s \in Sessions \cup ReadOnlySessions : ExportStart(s)
  \/ \E res \in UpstreamResponses : ExportDownloadResponse(res)
  \/ \E res \in UpstreamResponses : ExportGenerateResponse(res)
  \/ \E s \in Sessions \cup ReadOnlySessions : BrandGet(s)
  \/ \E s \in Sessions : BrandPut(s)
  \/ \E s \in Sessions : BrandDeleteLogo(s)
  \/ \E s \in Sessions : PlanSwitch(s)

Spec == Init /\ [][Next]_vars

-----------------------------------------------------------------------------
(* getPlanCapabilities applied to plan identifiers of every kind *)

PlanIdInputs ==
  {JsUndef, JsNull, JsNum(<<"7">>), JsStr(<<>>), JsStr(FREE), JsStr(PRO), JsStr(AGENCY),
   JsStr(<<"A", "g", "e", "n", "c", "y">>), JsStr(<<"A", "G", "E", "N", "C", "Y">>), JsStr(<<"a", "g", "e", "n", "c", "y", " ">>), JsStr(<<"F", "r", "e", "e">>),
   JsStr(<<"e", "n", "t", "e", "r", "p", "r", "i", "s", "e">>)}

CallGetPlanCapabilities(planId) ==
  /\ probe' = [fn |-> "getPlanCapabilities", arg |-> planId,
               result |-> getPlanCapabilities(planId)]
  /\ UNCHANGED <<users, audits, brand, cur, indexing>>

NextCaps ==
  \/ \E planId \in PlanIdInputs : CallGetPlanCapabilities(planId)
  \/ \E s \in Sessions \cup ReadOnlySessions : GetUserPlan(s)
  \/ \E s \in Sessions : PlanSwitch(s)

SpecCaps == Init /\ [][NextCaps]_vars

-----------------------------------------------------------------------------
(* Properties of the export handler *)

\* the audit `id` is missing or belongs to somebody else
NotOwned(s, id) == id \notin DOMAIN audits \/ audits[id].userId # s

\* the calls of the current export to one endpoint of the report service
CallsTo(endpoint) == {i \in 1..Len(cur.calls) : cur.calls[i].endpoint = endpoint}

\* what the caller of an export sees
Answer(r) == [status |-> r.status, error |-> r.error, calls |-> r.calls]

\* the brand fields a download request carries
BrandOfParams(params) ==
  [company_name |-> params.company_name, primary_color |-> params.primary_color,
   accent_color |-> params.accent_color, logo_url |-> params.logo_url]

\* the brand fields a regeneration request carries
BrandOfBody(b) ==
  [company_name |-> b.company_name, primary_color |-> b.primary_color,
   accent_color |-> b.accent_color, logo_url |-> b.logo_url]

\* the cached payloads of the audits, deserialized
CachedPayload(id) ==
  CASE id = "a1" -> [score |-> 71]
    [] id = "a2" -> [score |-> 5]
    [] id = "a5" -> [score |-> 0]
    [] OTHER -> [score |-> -1]

\* C1: an export of html or docx by a user whose plan is not "agency" is
\* answered 403 with the PDF-only error and the report service is not called;
\* an export of pdf is never answered 400 or 403 by the handler itself: such
\* a status can only be the one the report service answered.
C1_NonAgencyExportPdfOnly ==
  (cur.op = "export" /\ cur.planId # JsUndef) =>
    /\ (cur.planId # JsStr(AGENCY) /\ cur.format \in {HTML, DOCX}) =>
         /\ cur.pc = "done"
         /\ cur.status = 403
         /\ cur.error = "Your plan allows PDF export only"
         /\ cur.calls = <<>>
    /\ (cur.format = PDF /\ cur.pc = "done" /\ cur.status \in {400, 403}) =>
         /\ cur.calls # <<>>
         /\ cur.status \in {cur.dl.status, cur.gen.status}

C1_Witness ==
  /\ cur.op = "export"
  /\ cur.planId = JsStr(PRO)
  /\ cur.format = DOCX
  /\ cur.status = 403

\* C2 as stated: an export of a supported format by an authenticated user for
\* an audit that is missing or not theirs is answered 404, whatever their plan.
C2_NotOwnedAlways404 ==
  (/\ cur.op = "export"
   /\ cur.pc = "done"
   /\ cur.session # NoSession
   /\ Includes(SUPPORTED_FORMATS, cur.format)
   /\ NotOwned(cur.session, cur.id)) => cur.status = 404

\* C2, amended: such an export is answered 404 when the caller's plan allows
\* the format and 403 when it does not, the report service is not called, and
\* the answer for somebody else's audit is the answer for a missing one.
C2_NotOwnedLikeMissing ==
  /\ (/\ cur.op = "export"
      /\ cur.pc = "done"
      /\ cur.session # NoSession
      /\ Includes(SUPPORTED_FORMATS, cur.format)
      /\ NotOwned(cur.session, cur.id)) =>
        /\ cur.calls = <<>>
        /\ cur.status =
             IF cur.planId # JsUndef /\ cur.planId # JsStr(AGENCY) /\ cur.format # PDF
             THEN 403 ELSE 404
  /\ \A f \in ExportFormats, l \in ExportLangs :
       /\ Answer(ExportBegin("u1", "a2", f, l)) = Answer(ExportBegin("u1", "a9", f, l))
       /\ Answer(ExportBegin("u2", "a1", f, l)) = Answer(ExportBegin("u2", "a9", f, l))

C2_Witness ==
  /\ cur.op = "export"
  /\ cur.session = "u1"
  /\ cur.id = "a2"
  /\ cur.planId = JsStr(AGENCY)
  /\ cur.format = HTML
  /\ cur.status = 404

\* C3 as stated: after a download 404 for an audit with a cached payload there
\* is exactly one regeneration POST, with the deserialized payload and the
\* format, language, watermark flag and brand fields of the download request,
\* and a successful POST is answered with its content-type and
\* content-disposition.
C3_RegenerateSameParameters ==
  (cur.op = "export" /\ cur.dl.status = 404 /\ cur.audit.resultJson \notin {JsNull, JsStr(<<>>)}) =>
    /\ Len(cur.calls) = 2
    /\ cur.calls[1].endpoint = "/api/audit/:fastApiId/download"
    /\ cur.calls[2].endpoint = "/api/report/generate"
    /\ cur.calls[2].method = "POST"
    /\ cur.calls[2].body.audit = CachedPayload(cur.id)
    /\ cur.calls[2].body.format = cur.calls[1].params.format
    /\ cur.calls[2].body.language = cur.calls[1].params.lang
    /\ cur.calls[2].body.show_watermark = (cur.calls[1].params.show_watermark = JsStr(<<"t", "r", "u", "e">>))
    /\ BrandOfBody(cur.calls[2].body.brand) = BrandOfParams(cur.calls[1].params)
    /\ (cur.pc = "done" /\ cur.gen.status >= 200 /\ cur.gen.status <= 299) =>
         /\ cur.status = 200
         /\ cur.contentType = cur.gen.contentType
         /\ cur.disposition = cur.gen.disposition

\* C3, amended: as above, but the POST carries the requested language when
\* one was requested and otherwise the audit's language, "en" when it has
\* none; and the answer carries application/octet-stream or an empty
\* content-disposition in place of a header the POST response lacks.
C3_RegenerateFromCache ==
  (cur.op = "export" /\ cur.dl.status = 404 /\ cur.audit.resultJson \notin {JsNull, JsStr(<<>>)}) =>
    /\ Len(cur.calls) = 2
    /\ cur.calls[1].endpoint = "/api/audit/:fastApiId/download"
    /\ cur.calls[2].endpoint = "/api/report/generate"
    /\ cur.calls[2].method = "POST"
    /\ cur.calls[2].body.audit = CachedPayload(cur.id)
    /\ cur.calls[2].body.format = cur.calls[1].params.format
    /\ cur.calls[2].body.language =
         IF cur.calls[1].params.lang # JsUndef THEN cur.calls[1].params.lang
         ELSE IF audits[cur.id].language \notin {JsNull, JsStr(<<>>)}
              THEN audits[cur.id].language
         ELSE JsStr(<<"e", "n">>)
    /\ cur.calls[2].body.show_watermark = (cur.calls[1].params.show_watermark = JsStr(<<"t", "r", "u", "e">>))
    /\ BrandOfBody(cur.calls[2].body.brand) = BrandOfParams(cur.calls[1].params)
    /\ (cur.pc = "done" /\ cur.gen.status >= 200 /\ cur.gen.status <= 299) =>
         /\ cur.status = 200
         /\ cur.contentType =
              IF cur.gen.contentType = JsNull THEN JsStr(OctetStream)
              ELSE cur.gen.contentType
         /\ cur.disposition =
              IF cur.gen.disposition = JsNull THEN JsStr(<<>>)
              ELSE cur.gen.disposition

C3_Witness ==
  /\ cur.op = "export"
  /\ cur.pc = "done"
  /\ cur.id = "a5"
  /\ cur.lang = JsNull
  /\ cur.dl.status = 404
  /\ cur.gen.status = 200
  /\ cur.status = 200
  /\ cur.brandObj.defined

\* C4: after a download 404 for an audit whose resultJson is null or empty
\* the export is answered 404 and the only call made is the download.
C4_NoCacheNoRegeneration ==
  (cur.op = "export" /\ cur.dl.status = 404 /\ cur.audit.resultJson \in {JsNull, JsStr(<<>>)}) =>
    /\ cur.pc = "done"
    /\ cur.status = 404
    /\ CallsTo("/api/report/generate") = {}
    /\ Len(cur.calls) = 1

C4_Witness ==
  /\ cur.op = "export"
  /\ cur.id = "a4"
  /\ cur.audit.resultJson = JsStr(<<>>)
  /\ cur.dl.status = 404
  /\ cur.status = 404

\* C5: an export makes at most one download call and at most one
\* regeneration call, the latter only after the download answered 404; any
\* other failed download status, and a failed regeneration status, is the
\* status of the answer.
C5_NoRetry ==
  cur.op = "export" =>
    /\ Cardinality(CallsTo("/api/audit/:fastApiId/download")) <= 1
    /\ Cardinality(CallsTo("/api/report/generate")) <= 1
    /\ Len(cur.calls) <= 2
    /\ CallsTo("/api/report/generate") # {} =>
         /\ cur.dl.status = 404
         /\ CallsTo("/api/report/generate") = {2}
         /\ CallsTo("/api/audit/:fastApiId/download") = {1}
    /\ (cur.dl.status > 0 /\ (cur.dl.status < 200 \/ cur.dl.status > 299) /\ cur.dl.status # 404) =>
         /\ cur.pc = "done"
         /\ cur.status = cur.dl.status
         /\ CallsTo("/api/report/generate") = {}
    /\ (cur.gen.status > 0 /\ (cur.gen.status < 200 \/ cur.gen.status > 299)) =>
         /\ cur.pc = "done"
         /\ cur.status = cur.gen.status

C5_Witness ==
  /\ cur.op = "export"
  /\ cur.pc = "done"
  /\ Len(cur.calls) = 2
  /\ cur.gen.status = 500
  /\ cur.status = 500

\* C6: every step of an export, whatever the answer, leaves the users, the
\* audits and the brand settings as they were.
C6_ExportWritesNothing ==
  [][cur'.op = "export" => (users' = users /\ audits' = audits /\ brand' = brand)]_vars

C6_Witness ==
  /\ cur.op = "export"
  /\ cur.pc = "done"
  /\ cur.id = "a1"
  /\ cur.status = 200
  /\ Len(cur.calls) = 2
  /\ users["u1"].planId = JsStr(AGENCY)
  /\ brand["u1"].exists

-----------------------------------------------------------------------------
(* GET /api/upload/logo/[filename] *)

\* the own properties of MIME_TYPES
MIME_TYPES ==
  [ext \in {<<"j", "p", "g">>, <<"j", "p", "e", "g">>, <<"p", "n", "g">>, <<"g", "i", "f">>, <<"w", "e", "b", "p">>, <<"s", "v", "g">>} |->
     CASE ext \in {<<"j", "p", "g">>, <<"j", "p", "e", "g">>} -> <<"i", "m", "a", "g", "e", "/", "j", "p", "e", "g">>
       [] ext = <<"p", "n", "g">> -> <<"i", "m", "a", "g", "e", "/", "p", "n", "g">>
       [] ext = <<"g", "i", "f">> -> <<"i", "m", "a", "g", "e", "/", "g", "i", "f">>
       [] ext = <<"w", "e", "b", "p">> -> <<"i", "m", "a", "g", "e", "/", "w", "e", "b", "p">>
       [] ext = <<"s", "v", "g">> -> <<"i", "m", "a", "g", "e", "/", "s", "v", "g", "+", "x", "m", "l">>]

\* the properties an object literal inherits from Object.prototype
ObjectPrototypeKeys ==
  {<<"c", "o", "n", "s", "t", "r", "u", "c", "t", "o", "r">>, <<"_", "_", "p", "r", "o", "t", "o", "_", "_">>, <<"h", "a", "s", "O", "w", "n", "P", "r", "o", "p", "e", "r", "t", "y">>, <<"i", "s", "P", "r", "o", "t", "o", "t", "y", "p", "e", "O", "f">>,
   <<"p", "r", "o", "p", "e", "r", "t", "y", "I", "s", "E", "n", "u", "m", "e", "r", "a", "b", "l", "e">>, <<"t", "o", "L", "o", "c", "a", "l", "e", "S", "t", "r", "i", "n", "g">>, <<"t", "o", "S", "t", "r", "i", "n", "g">>, <<"v", "a", "l", "u", "e", "O", "f">>,
   <<"_", "_", "d", "e", "f", "i", "n", "e", "G", "e", "t", "t", "e", "r", "_", "_">>, <<"_", "_", "d", "e", "f", "i", "n", "e", "S", "e", "t", "t", "e", "r", "_", "_">>, <<"_", "_", "l", "o", "o", "k", "u", "p", "G", "e", "t", "t", "e", "r", "_", "_">>,
   <<"_", "_", "l", "o", "o", "k", "u", "p", "S", "e", "t", "t", "e", "r", "_", "_">>}

\* MIME_TYPES[ext]: an own property, else an inherited one, else undefined
MimeLookup(ext) ==
  IF ext \in DOMAIN MIME_TYPES THEN JsStr(MIME_TYPES[ext])
  ELSE IF ext \in ObjectPrototypeKeys THEN JsObject(<<"O", "b", "j", "e", "c", "t", ".", "p", "r", "o", "t", "o", "t", "y", "p", "e", ".">> \o ext)
  ELSE JsUndef

\* /^[a-zA-Z0-9_.-]+$/.test(filename)
ServedNameOk(filename) ==
  filename # <<>> /\ \A i \in 1..Len(filename) : filename[i] \in FilenameChars

\* filename.split(".").pop()?.toLowerCase() || ""
ServedExt(filename) ==
  LET parts == SplitOn(filename, {"."})
  IN  ToLowerCase(parts[Len(parts)])

\* process.cwd(), as path segments
Cwd == <<<<"s", "r", "v">>, <<"a", "p", "p">>>>

\* path.join normalises the joined path: "." and empty segments are dropped,
\* ".." takes the segment before it away
RECURSIVE NormalizePath(_, _)
NormalizePath(segs, acc) ==
  IF segs = <<>> THEN acc
  ELSE IF Head(segs) \in {<<>>, <<".">>} THEN NormalizePath(Tail(segs), acc)
  ELSE IF Head(segs) = <<".", ".">>
       THEN NormalizePath(Tail(segs), IF acc = <<>> THEN acc ELSE SubSeq(acc, 1, Len(acc) - 1))
  ELSE NormalizePath(Tail(segs), Append(acc, Head(segs)))

\* join(process.cwd(), "public", "uploads", filename)
ServedPath(filename) ==
  NormalizePath(Cwd \o <<<<"p", "u", "b", "l", "i", "c">>, <<"u", "p", "l", "o", "a", "d", "s">>>> \o SplitOn(filename, {"/"}), <<>>)

\* String(mime), as the Headers of the response hold it
HeaderValue(mime) == IF mime.t = "object" THEN <<"f", "u", "n", "c", "t", "i", "o", "n", " ">> \o mime.v ELSE ToStr(mime)

\* the request: what it was asked, what it read and what it answered
LogoGetResult(filename, disk, status, error, reads, mime) ==
  [fn |-> "GET logo", filename |-> filename, disk |-> disk, status |-> status,
   error |-> error, reads |-> reads,
   contentType |-> IF status = 200 THEN JsStr(HeaderValue(mime)) ELSE JsUndef,
   cacheControl |-> IF status = 200 THEN JsStr(<<"p", "u", "b", "l", "i", "c", ",", " ", "m", "a", "x", "-", "a", "g", "e", "=", "8", "6", "4", "0", "0">>) ELSE JsUndef]

LogoGetRead(filename, disk, mime, filepath) ==
  IF filepath \in disk
  THEN LogoGetResult(filename, disk, 200, <<>>, <<filepath>>, mime)
  ELSE LogoGetResult(filename, disk, 404, <<"N", "o", "t", " ", "f", "o", "u", "n", "d">>, <<filepath>>, mime)

LogoGetChecked(filename, disk, mime) ==
  IF ~Truthy(mime)
  THEN LogoGetResult(filename, disk, 400, <<"U", "n", "s", "u", "p", "p", "o", "r", "t", "e", "d", " ", "f", "o", "r", "m", "a", "t">>, <<>>, mime)
  ELSE LogoGetRead(filename, disk, mime, ServedPath(filename))

LogoGetResponse(filename, disk) ==
  IF ~ServedNameOk(filename)
  THEN LogoGetResult(filename, disk, 400, <<"I", "n", "v", "a", "l", "i", "d", " ", "f", "i", "l", "e", "n", "a", "m", "e">>, <<>>, JsUndef)
  ELSE LogoGetChecked(filename, disk, MimeLookup(ServedExt(filename)))

\* files of the server: two uploaded logos and two files outside the uploads
OtherFiles ==
  {Cwd \o <<<<"p", "u", "b", "l", "i", "c">>, <<"f", "a", "v", "i", "c", "o", "n", ".", "p", "n", "g">>>>, Cwd \o <<<<"s", "e", "c", "r", "e", "t", ".", "p", "n", "g">>>>}

Disks ==
  {OtherFiles,
   OtherFiles \cup {Cwd \o <<<<"p", "u", "b", "l", "i", "c">>, <<"u", "p", "l", "o", "a", "d", "s">>, <<"a", ".", "p", "n", "g">>>>},
   OtherFiles \cup {Cwd \o <<<<"p", "u", "b", "l", "i", "c">>, <<"u", "p", "l", "o", "a", "d", "s">>, <<"a", ".", "p", "n", "g">>>>,
                    Cwd \o <<<<"p", "u", "b", "l", "i", "c">>, <<"u", "p", "l", "o", "a", "d", "s">>, <<"L", "o", "g", "o", "_", "2", ".", "J", "P", "G">>>>,
                    Cwd \o <<<<"p", "u", "b", "l", "i", "c">>, <<"u", "p", "l", "o", "a", "d", "s">>, <<"c", ".", "s", "v", "g">>>>}}

\* the [filename] segment of the request, decoded
ServedFilenames ==
  {<<"a", ".", "p", "n", "g">>, <<"L", "o", "g", "o", "_", "2", ".", "J", "P", "G">>, <<"c", ".", "s", "v", "g">>, <<"b", ".", "j", "p", "e", "g">>, <<"d", ".", "g", "i", "f">>, <<"e", ".", "w", "e", "b", "p">>,
   <<"a", ".", "P", "N", "G">>, <<"a", ".", "p", "n", "g", ".", "t", "x", "t">>, <<"a", ".", "t", "x", "t">>, <<"a">>, <<"p", "n", "g">>, <<"a", "p", "n", "g">>, <<".", "p", "n", "g">>,
   <<".", ".">>, <<".">>, <<".", ".", "p", "n", "g">>, <<"a", ".">>,
   <<".", ".", "/", "f", "a", "v", "i", "c", "o", "n", ".", "p", "n", "g">>, <<".", ".", "/", ".", ".", "/", "s", "e", "c", "r", "e", "t", ".", "p", "n", "g">>, <<".", ".", "\\", "s", "e", "c", "r", "e", "t", ".", "p", "n", "g">>,
   <<"a", " ", "b", ".", "p", "n", "g">>, <<"a", ".", "p", "n", "g", " ">>, <<"a", "%", "2", "F", "b", ".", "p", "n", "g">>, <<"x", "/", "a", ".", "p", "n", "g">>,
   <<"l", "o", "g", "o", ".", "c", "o", "n", "s", "t", "r", "u", "c", "t", "o", "r">>, <<"c", "o", "n", "s", "t", "r", "u", "c", "t", "o", "r">>, <<"_", "_", "p", "r", "o", "t", "o", "_", "_">>, <<"a", ".", "_", "_", "p", "r", "o", "t", "o", "_", "_">>,
   <<"a", ".", "t", "o", "S", "t", "r", "i", "n", "g">>, <<"a", ".", "v", "a", "l", "u", "e", "O", "f">>}

LogoGet(filename, disk) ==
  /\ probe = NoProbe
  /\ probe' = LogoGetResponse(filename, disk)
  /\ UNCHANGED <<users, audits, brand, cur, indexing>>

-----------------------------------------------------------------------------
(* Properties of getPlanCapabilities *)

\* the capabilities of every plan but agency and free
DefaultCapabilities ==
  [allowedExportFormats |-> <<PDF>>, canUseBranding |-> FALSE,
   showWatermark |-> FALSE, unlimitedAudits |-> FALSE]

\* C7: getPlanCapabilities allows pdf, html and docx and branding for the
\* identifier "agency", and pdf alone and no branding for any other
\* identifier, be it null, undefined, no string or an unknown string; the
\* capabilities GET /api/user/plan answers with follow the same rule.
C7_AgencyAloneGetsFormatsAndBranding ==
  /\ probe.fn = "getPlanCapabilities" =>
       IF probe.arg = JsStr(<<"a", "g", "e", "n", "c", "y">>)
       THEN /\ Elements(probe.result.allowedExportFormats) = {PDF, HTML, DOCX}
            /\ probe.result.canUseBranding = TRUE
       ELSE /\ Elements(probe.result.allowedExportFormats) = {PDF}
            /\ probe.result.canUseBranding = FALSE
  /\ (cur.op = "getPlan" /\ cur.status = 200) =>
       /\ cur.capabilities.canUseBranding = (cur.planId = JsStr(<<"a", "g", "e", "n", "c", "y">>))
       /\ Elements(cur.capabilities.allowedExportFormats) =
            IF cur.planId = JsStr(<<"a", "g", "e", "n", "c", "y">>)
            THEN {PDF, HTML, DOCX} ELSE {PDF}

C7_Witness ==
  /\ probe.fn = "getPlanCapabilities"
  /\ probe.arg = JsStr(<<"A", "g", "e", "n", "c", "y">>)
  /\ probe.result.canUseBranding = FALSE

\* C8: getPlanCapabilities has a result for every identifier; showWatermark
\* is true for "free" and for nothing else, and every identifier but
\* "agency" and "free" gets the default record.
C8_WatermarkForFreeAlone ==
  probe.fn = "getPlanCapabilities" =>
    /\ DOMAIN probe.result =
         {"allowedExportFormats", "canUseBranding", "showWatermark", "unlimitedAudits"}
    /\ probe.result.showWatermark = (probe.arg = JsStr(<<"f", "r", "e", "e">>))
    /\ probe.arg \notin {JsStr(<<"a", "g", "e", "n", "c", "y">>), JsStr(<<"f", "r", "e", "e">>)} =>
         probe.result = DefaultCapabilities

C8_Witness ==
  /\ probe.fn = "getPlanCapabilities"
  /\ probe.arg = JsUndef
  /\ probe.result = DefaultCapabilities

-----------------------------------------------------------------------------
(* Properties of the brand settings handlers *)

BrandOps == {"brandGet", "brandPut", "brandDeleteLogo"}

\* the caller has a session and, as the step begins, no plan "agency"
NotAgencyCaller(s) ==
  /\ s # NoSession
  /\ (s \notin DOMAIN users \/ users[s].planId # JsStr(<<"a", "g", "e", "n", "c", "y">>))

\* C9: a GET, PUT or logo DELETE of the brand settings by a caller with a
\* session whose plan is not "agency" is answered 403, returns no brand
\* settings and changes none, whether or not the caller has a record.
C9_BrandSettingsNeedAgency ==
  [][(cur'.op \in BrandOps /\ NotAgencyCaller(cur'.session)) =>
       (cur'.status = 403 /\ cur'.data = NoBrand /\ brand' = brand)]_vars

C9_Witness ==
  /\ cur.op = "brandPut"
  /\ cur.session = "u1"
  /\ cur.status = 403
  /\ users["u1"].planId = JsStr(PRO)
  /\ brand["u1"].exists

\* companyName is in the body and is no string of at most 100 characters
CompanyNameRefused(companyName) ==
  companyName # JsUndef /\ (companyName.t # "string" \/ Len(companyName.v) > MaxCompanyName)

\* logoUrl is in the body, is not empty and toApiLogoPath has no path for it
LogoUrlRefused(logoUrl) ==
  logoUrl \notin {JsUndef, JsNull, JsStr(<<>>)} /\ toApiLogoPath(logoUrl) = JsNull

\* C10 as stated: a PUT of the brand settings with such a companyName or such
\* a logoUrl is answered 400 and the brand settings stay as they were.
C10_InvalidPutRefused ==
  [][(/\ cur'.op = "brandPut"
      /\ cur'.body.valid
      /\ (CompanyNameRefused(cur'.body.companyName) \/ LogoUrlRefused(cur'.body.logoUrl))) =>
       (cur'.status = 400 /\ brand' = brand)]_vars

\* C10, amended: such a PUT leaves the brand settings as they were; it is
\* answered 400 when the caller's plan is "agency" and the companyName at
\* fault is not null, 401 without a session and 403 on any other plan.  A
\* null companyName is taken as no companyName.
C10_InvalidPutWritesNothing ==
  [][(/\ cur'.op = "brandPut"
      /\ cur'.body.valid
      /\ \/ (cur'.body.companyName # JsNull /\ CompanyNameRefused(cur'.body.companyName))
         \/ LogoUrlRefused(cur'.body.logoUrl)) =>
       /\ brand' = brand
       /\ cur'.status =
            IF cur'.session = NoSession THEN 401
            ELSE IF NotAgencyCaller(cur'.session) THEN 403
            ELSE 400]_vars

C10_Witness ==
  /\ cur.op = "brandPut"
  /\ cur.status = 400
  /\ cur.body.companyName = JsStr(AcmeName)
  /\ cur.body.logoUrl = JsStr(<<"/", "e", "t", "c", "/", "p", "a", "s", "s", "w", "d">>)
  /\ ~brand["u1"].exists

-----------------------------------------------------------------------------
(* toApiLogoPath applied to logo URLs of every kind *)

\* what may stand before the path of a logo URL
LogoOrigins ==
  {<<>>, <<"h", "t", "t", "p", "s", ":", "/", "/", "e", "v", "i", "l", ".", "e", "x", "a", "m", "p", "l", "e">>, <<"/", "/", "e", "v", "i", "l", ".", "e", "x", "a", "m", "p", "l", "e">>, <<"h", "t", "t", "p", ":", "/", "/", "a", "p", "p", ".", "e", "x", "a", "m", "p", "l", "e", ":", "3", "0", "0", "0">>,
   <<"f", "t", "p", ":", "/", "/", "h">>, <<"d", "a", "t", "a", ":">>, <<" ">>, <<"h", "t", "t", "p", "s", ":", "/", "/", "e", "x", " ", "a", "m", "p", "l", "e">>, <<"h", "t", "t", "p", "s", ":", "/", "/", "h", ":", "9", "9", "9", "9", "9">>}

LogoDirs ==
  {<<"/", "u", "p", "l", "o", "a", "d", "s", "/">>, <<"/", "a", "p", "i", "/", "u", "p", "l", "o", "a", "d", "/", "l", "o", "g", "o", "/">>, <<"/", "u", "p", "l", "o", "a", "d", "s", "/", ".", ".", "/", "u", "p", "l", "o", "a", "d", "s", "/">>,
   <<"/", "x", "/", ".", ".", "/", "a", "p", "i", "/", "u", "p", "l", "o", "a", "d", "/", "l", "o", "g", "o", "/">>, <<"/", "u", "p", "l", "o", "a", "d", "s", "/", ".", "/">>, <<"/", "u", "p", "l", "o", "a", "d", "s", "/", ".", ".", "/">>,
   <<"/", "u", "p", "l", "o", "a", "d", "s", "/", ".", ".", "/", ".", ".", "/", "e", "t", "c", "/">>, <<"/", "e", "t", "c", "/">>, <<"/", "u", "p", "l", "o", "a", "d", "s", "/", "s", "u", "b", "/">>, <<"/", "a", "p", "i", "/", "u", "p", "l", "o", "a", "d", "/">>,
   <<"/", "U", "p", "l", "o", "a", "d", "s", "/">>, <<"/", "/", "u", "p", "l", "o", "a", "d", "s", "/">>}

LogoNames ==
  {<<"a", ".", "p", "n", "g">>, <<"b", "-", "2", ".", "s", "v", "g">>, <<"A", "_", "1", ".", "J", "P", "G">>, <<".", ".", ".">>, <<>>, <<".">>, <<".", ".">>,
   <<"%", "2", "e", "%", "2", "e">>, <<"a", " ", "b", ".", "p", "n", "g">>, <<"a", "%", "4", "1", ".", "p", "n", "g">>, <<"a", "/", "b", ".", "p", "n", "g">>, <<"a", ".", "p", "n", "g", "?", "v", "=", "1">>,
   <<"a", ".", "p", "n", "g", "#", "t", "o", "p">>, <<"a", "\t", "b", ".", "p", "n", "g">>, <<"a", ".", "p", "n", "g", " ">>, <<"a", ";", "b", ".", "p", "n", "g">>, <<"~", "a", ".", "p", "n", "g">>}

\* logo URLs that are not an origin, a directory and a name put together
WholeLogoUrls ==
  {JsUndef, JsNull, JsStr(<<>>),
   JsStr(<<"u", "p", "l", "o", "a", "d", "s", "/", "a", ".", "p", "n", "g">>), JsStr(<<".", ".", "/", "u", "p", "l", "o", "a", "d", "s", "/", "a", ".", "p", "n", "g">>),
   JsStr(<<"\\", "u", "p", "l", "o", "a", "d", "s", "\\", "a", ".", "p", "n", "g">>), JsStr(<<"h", "t", "t", "p", "s", ":", "/", "u", "p", "l", "o", "a", "d", "s", "/", "a", ".", "p", "n", "g">>),
   JsStr(<<"h", "t", "t", "p", "s", ":", "u", "p", "l", "o", "a", "d", "s", "/", "a", ".", "p", "n", "g">>), JsStr(<<"h", "t", "t", "p", ":", "/", "u", "p", "l", "o", "a", "d", "s", "/", "a", ".", "p", "n", "g">>),
   JsStr(<<"m", "a", "i", "l", "t", "o", ":", "u", "p", "l", "o", "a", "d", "s", "/", "a", ".", "p", "n", "g">>), JsStr(<<"a", ".", "p", "n", "g">>),
   JsStr(<<"/", "u", "p", "l", "o", "a", "d", "s">>), JsStr(<<"?", "/", "u", "p", "l", "o", "a", "d", "s", "/", "a", ".", "p", "n", "g">>)}

\* a call of toApiLogoPath and a second call on its result; each behaviour
\* makes one such call
LogoProbe(kind, origin, dir, name, arg, result) ==
  [fn |-> "toApiLogoPath", kind |-> kind, origin |-> origin, dir |-> dir,
   name |-> name, arg |-> arg, result |-> result, again |-> toApiLogoPath(result)]

CallToApiLogoPathComposed(origin, dir, name) ==
  /\ probe = NoProbe
  /\ probe' = LogoProbe("composed", origin, dir, name, JsStr(origin \o dir \o name),
                        toApiLogoPath(JsStr(origin \o dir \o name)))
  /\ UNCHANGED <<users, audits, brand, cur, indexing>>

CallToApiLogoPathWhole(logoUrl) ==
  /\ probe = NoProbe
  /\ probe' = LogoProbe("whole", <<>>, <<>>, <<>>, logoUrl, toApiLogoPath(logoUrl))
  /\ UNCHANGED <<users, audits, brand, cur, indexing>>

NextLogo ==
  \/ \E origin \in LogoOrigins, dir \in LogoDirs, name \in LogoNames :
       CallToApiLogoPathComposed(origin, dir, name)
  \/ \E logoUrl \in WholeLogoUrls : CallToApiLogoPathWhole(logoUrl)
  \/ \E filename \in ServedFilenames, disk \in Disks : LogoGet(filename, disk)

SpecLogo == Init /\ [][NextLogo]_vars

-----------------------------------------------------------------------------
(* Properties of toApiLogoPath *)

\* s has the text sub in it
Contains(s, sub) ==
  \E i \in 1..(Len(s) - Len(sub) + 1) : SubSeq(s, i, i + Len(sub) - 1) = sub

SafeNameChars == Lower \cup Upper \cup Digit \cup {"_", ".", "-"}

\* a name of one or more safe characters
SafeName(name) == name # <<>> /\ \A i \in 1..Len(name) : name[i] \in SafeNameChars

\* the origins with a scheme and a host of their own, or a host alone
ExternalOrigins ==
  {<<"h", "t", "t", "p", "s", ":", "/", "/", "e", "v", "i", "l", ".", "e", "x", "a", "m", "p", "l", "e">>, <<"/", "/", "e", "v", "i", "l", ".", "e", "x", "a", "m", "p", "l", "e">>, <<"h", "t", "t", "p", ":", "/", "/", "a", "p", "p", ".", "e", "x", "a", "m", "p", "l", "e", ":", "3", "0", "0", "0">>,
   <<"f", "t", "p", ":", "/", "/", "h">>}

\* the origins no URL can start with: a space in the host, a port past 65535
UnparsableOrigins == {<<"h", "t", "t", "p", "s", ":", "/", "/", "e", "x", " ", "a", "m", "p", "l", "e">>, <<"h", "t", "t", "p", "s", ":", "/", "/", "h", ":", "9", "9", "9", "9", "9">>}

\* the directories whose dot segments resolve to /uploads/ or /api/upload/logo/
ServedDirs ==
  {<<"/", "u", "p", "l", "o", "a", "d", "s", "/">>, <<"/", "a", "p", "i", "/", "u", "p", "l", "o", "a", "d", "/", "l", "o", "g", "o", "/">>, <<"/", "u", "p", "l", "o", "a", "d", "s", "/", ".", ".", "/", "u", "p", "l", "o", "a", "d", "s", "/">>,
   <<"/", "x", "/", ".", ".", "/", "a", "p", "i", "/", "u", "p", "l", "o", "a", "d", "/", "l", "o", "g", "o", "/">>, <<"/", "u", "p", "l", "o", "a", "d", "s", "/", ".", "/">>}

\* the file name a name stands for once its query, its fragment, a trailing
\* space and its tabs are gone; <<>> when it then is no safe name or is a
\* dot segment
ServedName(name) ==
  CASE name \in {<<"a", ".", "p", "n", "g">>, <<"a", ".", "p", "n", "g", "?", "v", "=", "1">>, <<"a", ".", "p", "n", "g", "#", "t", "o", "p">>, <<"a", ".", "p", "n", "g", " ">>} -> <<"a", ".", "p", "n", "g">>
    [] name = <<"a", "\t", "b", ".", "p", "n", "g">> -> <<"a", "b", ".", "p", "n", "g">>
    [] name \in {<<"b", "-", "2", ".", "s", "v", "g">>, <<"A", "_", "1", ".", "J", "P", "G">>, <<".", ".", ".">>} -> name
    [] OTHER -> <<>>

\* the result for an origin, a directory and a name put together
ExpectedComposed(origin, dir, name) ==
  IF origin \notin UnparsableOrigins /\ dir \in ServedDirs /\ ServedName(name) # <<>>
  THEN JsStr(<<"/", "a", "p", "i", "/", "u", "p", "l", "o", "a", "d", "/", "l", "o", "g", "o", "/">> \o ServedName(name))
  ELSE JsNull

\* the result for the other logo URLs
ExpectedWhole(logoUrl) ==
  IF logoUrl \in {JsStr(<<"u", "p", "l", "o", "a", "d", "s", "/", "a", ".", "p", "n", "g">>), JsStr(<<".", ".", "/", "u", "p", "l", "o", "a", "d", "s", "/", "a", ".", "p", "n", "g">>),
                  JsStr(<<"\\", "u", "p", "l", "o", "a", "d", "s", "\\", "a", ".", "p", "n", "g">>), JsStr(<<"h", "t", "t", "p", "s", ":", "/", "u", "p", "l", "o", "a", "d", "s", "/", "a", ".", "p", "n", "g">>),
                  JsStr(<<"h", "t", "t", "p", "s", ":", "u", "p", "l", "o", "a", "d", "s", "/", "a", ".", "p", "n", "g">>)}
  THEN JsStr(<<"/", "a", "p", "i", "/", "u", "p", "l", "o", "a", "d", "/", "l", "o", "g", "o", "/", "a", ".", "p", "n", "g">>)
  ELSE JsNull

\* C11: toApiLogoPath applied to a path it returned returns that path.
C11_ToApiLogoPathIdempotent ==
  (probe.fn = "toApiLogoPath" /\ probe.result # JsNull) => probe.again = probe.result

C11_Witness ==
  /\ probe.fn = "toApiLogoPath"
  /\ probe.origin = <<"h", "t", "t", "p", "s", ":", "/", "/", "e", "v", "i", "l", ".", "e", "x", "a", "m", "p", "l", "e">>
  /\ probe.dir = <<"/", "u", "p", "l", "o", "a", "d", "s", "/">>
  /\ probe.name = <<"b", "-", "2", ".", "s", "v", "g">>
  /\ probe.result = JsStr(<<"/", "a", "p", "i", "/", "u", "p", "l", "o", "a", "d", "/", "l", "o", "g", "o", "/", "b", "-", "2", ".", "s", "v", "g">>)
  /\ probe.again = probe.result

\* C12 as stated: toApiLogoPath returns null for a string with ../ in it,
\* for a URL with a scheme and host of its own, and for a name with a
\* character outside [A-Za-z0-9_.-]; what it returns a path for is
\* /api/upload/logo/<filename> or /uploads/<filename>.
C12_OnlyPlainInternalPaths ==
  (probe.fn = "toApiLogoPath" /\ probe.arg.t = "string") =>
    /\ Contains(probe.arg.v, <<".", ".", "/">>) => probe.result = JsNull
    /\ (probe.kind = "composed" /\ probe.origin \in ExternalOrigins) => probe.result = JsNull
    /\ (probe.kind = "composed" /\ \E i \in 1..Len(probe.name) : probe.name[i] \notin SafeNameChars) =>
         probe.result = JsNull
    /\ probe.result # JsNull =>
         \E prefix \in {<<"/", "a", "p", "i", "/", "u", "p", "l", "o", "a", "d", "/", "l", "o", "g", "o", "/">>, <<"/", "u", "p", "l", "o", "a", "d", "s", "/">>} :
           /\ StartsWith(probe.arg.v, prefix)
           /\ SafeName(SubSeq(probe.arg.v, Len(prefix) + 1, Len(probe.arg.v)))

\* C12, amended: toApiLogoPath returns null or /api/upload/logo/<filename>
\* with a filename of safe characters that is no dot segment; it returns the
\* path when the pathname of the input taken as a URL (dot segments resolved,
\* host, query and fragment dropped, outer spaces and inner tabs removed)
\* is /api/upload/logo/<filename> or /uploads/<filename>, and null otherwise.
C12_OnlyServedPathnames ==
  probe.fn = "toApiLogoPath" =>
    /\ probe.result # JsNull =>
         /\ probe.result.t = "string"
         /\ StartsWith(probe.result.v, <<"/", "a", "p", "i", "/", "u", "p", "l", "o", "a", "d", "/", "l", "o", "g", "o", "/">>)
         /\ SafeName(SubSeq(probe.result.v, 18, Len(probe.result.v)))
         /\ SubSeq(probe.result.v, 18, Len(probe.result.v)) \notin {<<".">>, <<".", ".">>}
    /\ probe.kind = "composed" =>
         probe.result = ExpectedComposed(probe.origin, probe.dir, probe.name)
    /\ probe.kind = "whole" => probe.result = ExpectedWhole(probe.arg)

C12_Witness ==
  /\ probe.fn = "toApiLogoPath"
  /\ probe.arg = JsStr(<<"h", "t", "t", "p", "s", ":", "/", "/", "e", "v", "i", "l", ".", "e", "x", "a", "m", "p", "l", "e", "/", "u", "p", "l", "o", "a", "d", "s", "/", ".", ".", "/", "u", "p", "l", "o", "a", "d", "s", "/", "a", ".", "p", "n", "g", "?", "v", "=", "1">>)
  /\ probe.result = JsStr(<<"/", "a", "p", "i", "/", "u", "p", "l", "o", "a", "d", "/", "l", "o", "g", "o", "/", "a", ".", "p", "n", "g">>)

-----------------------------------------------------------------------------
(* app/api/indexing/sites/[siteId]/auto-index (PATCH) *)

JsTrue == [t |-> "boolean", v |-> <<"t", "r", "u", "e">>]

JsFalse == [t |-> "boolean", v |-> <<"f", "a", "l", "s", "e">>]

\* typeof x === "boolean"
IsBoolean(x) == x.t = "boolean"

NoFlags == [autoIndexGoogle |-> JsUndef, autoIndexBing |-> JsUndef]

\* the `update` object: the keys of the body that are booleans
AutoIndexUpdate(body) ==
  [autoIndexGoogle |-> IF IsBoolean(body.google) THEN body.google ELSE JsUndef,
   autoIndexBing |-> IF IsBoolean(body.bing) THEN body.bing ELSE JsUndef]

\* update.autoIndexGoogle || update.autoIndexBing
AutoIndexEnables(update) ==
  update.autoIndexGoogle = JsTrue \/ update.autoIndexBing = JsTrue

\* faulty variant: the plan is asked for whenever a flag is written
AutoIndexAllowedOnPaidPlansOnly(s, update) ==
  /\ UserExists(s)
  /\ \E p \in Plans : p.id = users[s].planId.v /\ p.autoIndexing

\* faulty variant: the plan is never asked for
AutoIndexAllowedAlways(s, update) == TRUE

\* the gate: !(enables && !user?.plan?.autoIndexing)
AutoIndexAllowed(s, update) ==
  AutoIndexEnables(update) =>
    /\ UserExists(s)
    /\ \E p \in Plans : p.id = users[s].planId.v /\ p.autoIndexing

\* prisma.site.update({ data: update }): an undefined field is left as it is
SiteUpdate(site, update) ==
  [site EXCEPT
     !.autoIndexGoogle = IF update.autoIndexGoogle = JsUndef THEN @
                         ELSE update.autoIndexGoogle = JsTrue,
     !.autoIndexBing = IF update.autoIndexBing = JsUndef THEN @
                       ELSE update.autoIndexBing = JsTrue]

NoAutoIndexBody == [valid |-> FALSE, google |-> JsUndef, bing |-> JsUndef]

AutoIndexNew(s, siteId, body) ==
  [op |-> "autoIndex", pc |-> "done", session |-> s, status |-> 0, error |-> "",
   siteId |-> siteId, body |-> body, update |-> NoFlags, data |-> NoFlags]

\* site && site.userId === session.user.id
SiteFound(s, siteId) == siteId \in DOMAIN sites /\ sites[siteId].userId = s

\* the answer of PATCH
AutoIndexResponse(s, siteId, body) ==
  LET r == AutoIndexNew(s, siteId, body)
      update == AutoIndexUpdate(body)
      r1 == [r EXCEPT !.update = update]
      updated == SiteUpdate(sites[siteId], update)
  IN  IF s = NoSession THEN Fail(r, 401, "Unauthorized")
      ELSE IF ~SiteFound(s, siteId) THEN Fail(r, 404, "Site not found")
      ELSE IF ~body.valid THEN Fail(r, 400, "Invalid JSON body")
      ELSE IF update = NoFlags THEN Fail(r1, 400, "No fields to update")
      ELSE IF ~AutoIndexAllowed(s, update)
           THEN Fail(r1, 403, "Auto-indexing is not available on your plan")
      ELSE [r1 EXCEPT !.status = 200,
                      !.data = [autoIndexGoogle |-> IF updated.autoIndexGoogle THEN JsTrue ELSE JsFalse,
                                autoIndexBing |-> IF updated.autoIndexBing THEN JsTrue ELSE JsFalse]]

\* the Site table after PATCH
AutoIndexSites(s, siteId, body) ==
  IF AutoIndexResponse(s, siteId, body).status = 200
  THEN [sites EXCEPT ![siteId] = SiteUpdate(sites[siteId], AutoIndexUpdate(body))]
  ELSE sites

AutoIndexFlagInputs == {JsUndef, JsTrue, JsFalse, JsStr(<<"t", "r", "u", "e">>)}

AutoIndexBodies ==
  {NoAutoIndexBody}
    \cup {[valid |-> TRUE, google |-> g, bing |-> b] :
            g \in AutoIndexFlagInputs, b \in AutoIndexFlagInputs}

\* the sites a caller asks for; "s9" names no site, and nobody asks for s3
AutoIndexSiteIds(s) == IF s = "u1" THEN {"s1", "s2", "s9"} ELSE {"s1"}

AutoIndex(s) ==
  /\ cur.pc = "done"
  /\ \E siteId \in AutoIndexSiteIds(s), body \in AutoIndexBodies :
       /\ cur' = AutoIndexResponse(s, siteId, body)
       /\ sites' = AutoIndexSites(s, siteId, body)
  /\ UNCHANGED <<users, audits, brand, probe, gsc, accounts>>

-----------------------------------------------------------------------------
(* app/api/indexing/gsc/disconnect (DELETE) *)

\* getGoogleAccount(userId): the user's Account row of the google provider,
\* or null (exists = FALSE)
getGoogleAccount(s) ==
  IF s \in DOMAIN accounts /\ accounts[s].exists /\ accounts[s].provider = "google"
  THEN accounts[s]
  ELSE NoAccount

\* searchParams.get("deleteData") !== "false"
DeleteData(param) == param # JsStr(<<"f", "a", "l", "s", "e">>)

Disconnected == [gscConnected |-> FALSE, gscConnectedAt |-> JsNull]

\* the database operations of the handler that can throw
Faults == {"none", "accountUpdate", "userUpdate", "deleteMany"}

DisconnectNew(s) ==
  [op |-> "disconnect", pc |-> "done", session |-> s, status |-> 0, error |-> "",
   param |-> JsNull, deleteData |-> TRUE, account |-> NoAccount, revoke |-> "none", fault |-> "none"]

\* the handler up to its first await of Google or of the database
DisconnectBegin(s, param) ==
  LET account == getGoogleAccount(s)
      r == [DisconnectNew(s) EXCEPT !.param = param, !.deleteData = DeleteData(param),
                                   !.account = account]
  IN  IF s = NoSession THEN Fail(DisconnectNew(s), 401, "Unauthorized")
      ELSE IF Truthy(account.access_token) THEN [r EXCEPT !.pc = "awaitRevoke"]
      ELSE [r EXCEPT !.pc = "clearTokens"]

\* faulty variant: a revocation that throws ends the request
DisconnectAfterRevokeUncaught(r, outcome) ==
  IF outcome = "threw"
  THEN Fail([r EXCEPT !.revoke = outcome], 500, "Internal Server Error")
  ELSE [r EXCEPT !.revoke = outcome, !.pc = "clearTokens"]

\* the revocation answered, failed or threw: the handler goes on all the same
DisconnectAfterRevoke(r, outcome) ==
  [r EXCEPT !.revoke = outcome, !.pc = "clearTokens"]

\* faulty variant: the Account row is deleted with its tokens
AccountWithoutTokensRemoved(a) == NoAccount

\* prisma.account.update: the four token columns set to null
AccountWithoutTokens(a) ==
  [a EXCEPT !.access_token = JsNull, !.refresh_token = JsNull,
            !.expires_at = JsNull, !.scope = JsNull]

\* the handler after the Account update, which threw when fault says so
DisconnectAfterClearTokens(r, fault) ==
  IF r.account.exists /\ fault = "accountUpdate"
  THEN Fail([r EXCEPT !.fault = fault], 500, "Internal Server Error")
  ELSE [r EXCEPT !.pc = "clearGsc"]

\* the Account table after the Account update
AccountsAfterClearTokens(r, fault) ==
  IF r.account.exists /\ fault # "accountUpdate"
  THEN [accounts EXCEPT ![r.session] = AccountWithoutTokens(accounts[r.session])]
  ELSE accounts

\* the last database step went through: prisma.user.update needs the row,
\* and the transaction needs both of its operations
GscStepDone(r, fault) ==
  /\ UserExists(r.session)
  /\ fault # "userUpdate"
  /\ (r.deleteData => fault # "deleteMany")

\* faulty variant: the two writes are made one after the other, outside a
\* transaction, so that the first stays when the second throws
GscAfterDisconnectSequential(r, fault) ==
  IF UserExists(r.session) /\ fault # "userUpdate"
  THEN [gsc EXCEPT ![r.session] = Disconnected]
  ELSE gsc

\* the Search Console columns after the last database step
GscAfterDisconnect(r, fault) ==
  IF GscStepDone(r, fault) THEN [gsc EXCEPT ![r.session] = Disconnected] ELSE gsc

\* the Site table after the last database step
SitesAfterDisconnect(r, fault) ==
  IF r.deleteData /\ GscStepDone(r, fault)
  THEN [id \in {i \in DOMAIN sites : sites[i].userId # r.session} |-> sites[id]]
  ELSE sites

\* the answer after the last database step
DisconnectAfterClearGsc(r, fault) ==
  IF GscStepDone(r, fault) THEN [r EXCEPT !.pc = "done", !.status = 200]
  ELSE Fail([r EXCEPT !.fault = IF UserExists(r.session) THEN fault ELSE "userUpdate"],
            500, "Internal Server Error")

DeleteDataParams ==
  {JsNull, JsStr(<<"t", "r", "u", "e">>), JsStr(<<"f", "a", "l", "s", "e">>), JsStr(<<"F", "A", "L", "S", "E">>), JsStr(<<>>)}

RevokeOutcomes == {"ok", "error", "threw"}

DisconnectStart(s) ==
  /\ cur.pc = "done"
  /\ \E param \in DeleteDataParams : cur' = DisconnectBegin(s, param)
  /\ UNCHANGED <<users, audits, brand, probe, indexing>>

DisconnectRevokeResponse(outcome) ==
  /\ cur.op = "disconnect"
  /\ cur.pc = "awaitRevoke"
  /\ cur' = DisconnectAfterRevoke(cur, outcome)
  /\ UNCHANGED <<users, audits, brand, probe, indexing>>

DisconnectClearTokens(fault) ==
  /\ cur.op = "disconnect"
  /\ cur.pc = "clearTokens"
  /\ cur' = DisconnectAfterClearTokens(cur, fault)
  /\ accounts' = AccountsAfterClearTokens(cur, fault)
  /\ UNCHANGED <<users, audits, brand, probe, sites, gsc>>

DisconnectClearGsc(fault) ==
  /\ cur.op = "disconnect"
  /\ cur.pc = "clearGsc"
  /\ cur' = DisconnectAfterClearGsc(cur, fault)
  /\ gsc' = GscAfterDisconnect(cur, fault)
  /\ sites' = SitesAfterDisconnect(cur, fault)
  /\ UNCHANGED <<users, audits, brand, probe, accounts>>

NextSites ==
  \/ \E s \in Sessions \cup ReadOnlySessions : AutoIndex(s)
  \/ \E s \in Sessions : PlanSwitch(s)
  \/ \E s \in Sessions : DisconnectStart(s)
  \/ \E outcome \in RevokeOutcomes : DisconnectRevokeResponse(outcome)
  \/ \E fault \in {"none", "accountUpdate"} : DisconnectClearTokens(fault)
  \/ \E fault \in {"none", "userUpdate", "deleteMany"} : DisconnectClearGsc(fault)

SpecSites == InitIndexing /\ [][NextSites]_vars

-----------------------------------------------------------------------------
(* Properties of the auto-index PATCH *)

\* the step answers a PATCH with a parsed body by the owner of the site
AutoIndexByOwner ==
  /\ cur'.op = "autoIndex"
  /\ cur'.body.valid
  /\ cur'.session # NoSession
  /\ cur'.siteId \in DOMAIN sites
  /\ sites[cur'.siteId].userId = cur'.session

\* the caller has no user row, or a plan whose autoIndexing is false
LacksAutoIndexing(s) ==
  \/ s \notin DOMAIN users
  \/ ~\E p \in Plans : p.id = users[s].planId.v /\ p.autoIndexing

\* the flags of the site after the step are those of the body where the body
\* has a boolean, and the former ones elsewhere
FlagsApplied ==
  /\ cur'.siteId \in DOMAIN sites'
  /\ sites'[cur'.siteId].autoIndexGoogle =
       IF cur'.body.google.t = "boolean" THEN cur'.body.google = JsTrue
       ELSE sites[cur'.siteId].autoIndexGoogle
  /\ sites'[cur'.siteId].autoIndexBing =
       IF cur'.body.bing.t = "boolean" THEN cur'.body.bing = JsTrue
       ELSE sites[cur'.siteId].autoIndexBing
  /\ \A id \in DOMAIN sites : id # cur'.siteId => (id \in DOMAIN sites' /\ sites'[id] = sites[id])

\* C13: a PATCH by the owner that sets google or bing to true, on a plan
\* whose autoIndexing is false, is answered 403 and no site is changed.
C13_EnablingNeedsPlan ==
  [][(/\ AutoIndexByOwner
      /\ (cur'.body.google = JsTrue \/ cur'.body.bing = JsTrue)
      /\ LacksAutoIndexing(cur'.session)) =>
       (cur'.status = 403 /\ sites' = sites)]_vars

C13_Witness ==
  /\ cur.op = "autoIndex"
  /\ cur.status = 403
  /\ cur.siteId = "s1"
  /\ cur.body.bing = JsTrue
  /\ users["u1"].planId = JsStr(FREE)
  /\ sites["s1"].autoIndexGoogle
  /\ ~sites["s1"].autoIndexBing

\* C14 as stated: a PATCH by the owner that sets a flag to false is applied
\* whatever the plan and is never answered 403.
C14_DisablingAlwaysApplied ==
  [][(/\ AutoIndexByOwner
      /\ (cur'.body.google = JsFalse \/ cur'.body.bing = JsFalse)) =>
       (cur'.status = 200 /\ FlagsApplied)]_vars

\* C14, amended: a PATCH by the owner that sets a flag to false and none to
\* true is applied whatever the plan and is never answered 403; one that
\* sets the other flag to true is refused as a whole, 403, on a plan
\* without auto-indexing, and applied as a whole on the other plans.
C14_DisablingAloneAlwaysApplied ==
  [][(/\ AutoIndexByOwner
      /\ (cur'.body.google = JsFalse \/ cur'.body.bing = JsFalse)) =>
       IF (cur'.body.google = JsTrue \/ cur'.body.bing = JsTrue)
          /\ LacksAutoIndexing(cur'.session)
       THEN cur'.status = 403 /\ sites' = sites
       ELSE cur'.status = 200 /\ FlagsApplied]_vars

C14_Witness ==
  /\ cur.op = "autoIndex"
  /\ cur.status = 200
  /\ cur.siteId = "s1"
  /\ users["u1"].planId = JsStr(FREE)
  /\ cur.body.google = JsFalse
  /\ cur.body.bing = JsUndef
  /\ cur.data.autoIndexBing = JsTrue
  /\ ~sites["s1"].autoIndexGoogle

-----------------------------------------------------------------------------
(* Properties of the plan switch *)

-----------------------------------------------------------------------------
(* Properties of the Search Console disconnect *)

\* no site of s is left after the step, and the other sites are as before
Purged(s) ==
  /\ \A id \in DOMAIN sites' : sites'[id].userId # s
  /\ \A id \in DOMAIN sites : sites[id].userId # s => (id \in DOMAIN sites' /\ sites'[id] = sites[id])

\* the connection columns of s are cleared after the step, the others kept
FlagCleared(s) ==
  /\ gsc'[s] = [gscConnected |-> FALSE, gscConnectedAt |-> JsNull]
  /\ \A u \in DOMAIN gsc : u # s => gsc'[u] = gsc[u]

\* C16: in a disconnect whose deleteData is not "false" the connection flag
\* and the sites change together or not at all: a step changes one only by
\* clearing the flag and deleting every site of the caller, a request
\* answered 200 has done both, and a request that failed has done neither.
C16_DisconnectAndPurgeAtomic ==
  [][(cur'.op = "disconnect" /\ cur'.session # NoSession
      /\ cur'.param # JsStr(<<"f", "a", "l", "s", "e">>)) =>
       /\ (gsc' # gsc \/ sites' # sites) =>
            (FlagCleared(cur'.session) /\ Purged(cur'.session))
       /\ (cur'.pc = "done" /\ cur'.status = 200) =>
            (FlagCleared(cur'.session) /\ Purged(cur'.session))
       /\ (cur'.pc = "done" /\ cur'.status # 200) => (gsc' = gsc /\ sites' = sites)]_vars

C16_Witness ==
  /\ cur.op = "disconnect"
  /\ cur.session = "u1"
  /\ cur.param = JsStr(<<>>)
  /\ cur.pc = "done"
  /\ cur.status = 500
  /\ cur.fault = "deleteMany"
  /\ gsc["u1"].gscConnected
  /\ {"s1", "s3"} \subseteq DOMAIN sites

\* C17: a disconnect with deleteData=false leaves every site, every plan,
\* every other user's records and the caller's Account row in place; of the
\* Account it changes the four token columns only, and once answered 200 it
\* has cleared them and the connection columns.
C17_DisconnectKeepsSites ==
  [][(cur'.op = "disconnect" /\ cur'.session # NoSession
      /\ cur'.param = JsStr(<<"f", "a", "l", "s", "e">>)) =>
       /\ sites' = sites
       /\ users' = users
       /\ \A u \in DOMAIN accounts :
            /\ accounts'[u].exists = accounts[u].exists
            /\ accounts'[u].provider = accounts[u].provider
            /\ u # cur'.session => accounts'[u] = accounts[u]
       /\ \A u \in DOMAIN gsc : u # cur'.session => gsc'[u] = gsc[u]
       /\ (cur'.pc = "done" /\ cur'.status = 200) =>
            /\ FlagCleared(cur'.session)
            /\ accounts'[cur'.session].access_token = JsNull
            /\ accounts'[cur'.session].refresh_token = JsNull
            /\ accounts'[cur'.session].expires_at = JsNull
            /\ accounts'[cur'.session].scope = JsNull]_vars

C17_Witness ==
  /\ cur.op = "disconnect"
  /\ cur.session = "u1"
  /\ cur.param = JsStr(<<"f", "a", "l", "s", "e">>)
  /\ cur.pc = "done"
  /\ cur.status = 200
  /\ cur.account.access_token # JsNull
  /\ accounts["u1"].exists
  /\ accounts["u1"].access_token = JsNull
  /\ ~gsc["u1"].gscConnected
  /\ sites["s1"].userId = "u1"

\* C18: whatever the revocation call does (answers, answers with an error,
\* throws) the handler goes on to its local changes without changing a
\* record; the request is answered 200 unless a database operation failed,
\* and then the tokens and the connection columns are cleared and the sites
\* deleted when asked for.
C18_RevocationBestEffort ==
  [][/\ (cur.op = "disconnect" /\ cur.pc = "awaitRevoke") =>
          /\ cur'.pc = "clearTokens"
          /\ cur'.status = cur.status
          /\ UNCHANGED <<users, sites, gsc, accounts>>
     /\ (cur'.op = "disconnect" /\ cur'.pc = "done" /\ cur'.revoke # "none") =>
          /\ cur'.status = IF cur'.fault = "none" THEN 200 ELSE 500
          /\ cur'.status = 200 =>
               /\ FlagCleared(cur'.session)
               /\ accounts'[cur'.session].access_token = JsNull
               /\ (cur'.param # JsStr(<<"f", "a", "l", "s", "e">>) => Purged(cur'.session))
               /\ (cur'.param = JsStr(<<"f", "a", "l", "s", "e">>) => sites' = sites)]_vars

C18_Witness ==
  /\ cur.op = "disconnect"
  /\ cur.pc = "done"
  /\ cur.status = 200
  /\ cur.revoke = "threw"
  /\ cur.param = JsNull
  /\ ~gsc["u1"].gscConnected
  /\ "s1" \notin DOMAIN sites

-----------------------------------------------------------------------------
(* Properties of the logo serving route *)

KnownImageExtensions == {<<"j", "p", "g">>, <<"j", "p", "e", "g">>, <<"p", "n", "g">>, <<"g", "i", "f">>, <<"w", "e", "b", "p">>, <<"s", "v", "g">>}

\* the text after the last dot of a name (the name itself when it has no
\* dot), in lower case
NameExtension(name) ==
  LET dots == {i \in 1..Len(name) : name[i] = "."}
  IN  ToLowerCase(SubSeq(name, (IF dots = {} THEN 0 ELSE Max(dots)) + 1, Len(name)))

ImageContentType(ext) ==
  CASE ext \in {<<"j", "p", "g">>, <<"j", "p", "e", "g">>} -> <<"i", "m", "a", "g", "e", "/", "j", "p", "e", "g">>
    [] ext = <<"p", "n", "g">> -> <<"i", "m", "a", "g", "e", "/", "p", "n", "g">>
    [] ext = <<"g", "i", "f">> -> <<"i", "m", "a", "g", "e", "/", "g", "i", "f">>
    [] ext = <<"w", "e", "b", "p">> -> <<"i", "m", "a", "g", "e", "/", "w", "e", "b", "p">>
    [] ext = <<"s", "v", "g">> -> <<"i", "m", "a", "g", "e", "/", "s", "v", "g", "+", "x", "m", "l">>
    [] OTHER -> <<>>

\* a file directly in the uploads directory
InUploads(path) ==
  /\ Len(path) = Len(Cwd) + 3
  /\ SubSeq(path, 1, Len(Cwd) + 2) = Cwd \o <<<<"p", "u", "b", "l", "i", "c">>, <<"u", "p", "l", "o", "a", "d", "s">>>>

\* C19: the logo route reads a file only for a name of safe characters with
\* a known image extension: any other name is answered 400 and nothing is
\* read, an accepted name without a file is answered 404, an existing file
\* is answered with its content type and a cache lifetime of 24 hours, and
\* every file read lies in the uploads directory.
C19_ServesOnlySafeImageNames ==
  probe.fn = "GET logo" =>
    /\ \A i \in 1..Len(probe.reads) : InUploads(probe.reads[i])
    /\ IF SafeName(probe.filename) /\ NameExtension(probe.filename) \in KnownImageExtensions
       THEN IF Cwd \o <<<<"p", "u", "b", "l", "i", "c">>, <<"u", "p", "l", "o", "a", "d", "s">>, probe.filename>> \in probe.disk
            THEN /\ probe.status = 200
                 /\ probe.reads = <<Cwd \o <<<<"p", "u", "b", "l", "i", "c">>, <<"u", "p", "l", "o", "a", "d", "s">>, probe.filename>>>>
                 /\ probe.contentType = JsStr(ImageContentType(NameExtension(probe.filename)))
                 /\ probe.cacheControl = JsStr(<<"p", "u", "b", "l", "i", "c", ",", " ", "m", "a", "x", "-", "a", "g", "e", "=", "8", "6", "4", "0", "0">>)
            ELSE probe.status = 404
       ELSE probe.status = 400 /\ probe.reads = <<>>

-----------------------------------------------------------------------------
(* Brand data in the requests of an export *)

\* C20: an export whose caller is on a plan other than agency sends no
\* company name, colour or logo URL to the report service: the download
\* query has none of the four parameters and the regeneration body has no
\* brand, whatever BrandSettings row the caller has.
C20_NoBrandWithoutBrandingPlan ==
  (cur.op = "export" /\ cur.planId # JsStr(<<"a", "g", "e", "n", "c", "y">>)) =>
    \A i \in 1..Len(cur.calls) :
      IF cur.calls[i].endpoint = "/api/report/generate"
      THEN /\ ~cur.calls[i].body.brand.defined
           /\ cur.calls[i].body.brand.company_name = JsUndef
           /\ cur.calls[i].body.brand.primary_color = JsUndef
           /\ cur.calls[i].body.brand.accent_color = JsUndef
           /\ cur.calls[i].body.brand.logo_url = JsUndef
      ELSE /\ cur.calls[i].params.company_name = JsUndef
           /\ cur.calls[i].params.primary_color = JsUndef
           /\ cur.calls[i].params.accent_color = JsUndef
           /\ cur.calls[i].params.logo_url = JsUndef

C20_Witness ==
  /\ cur.op = "export"
  /\ cur.session = "u1"
  /\ cur.pc = "done"
  /\ cur.status = 200
  /\ cur.planId = JsStr(<<"p", "r", "o">>)
  /\ users["u1"].planId = JsStr(<<"p", "r", "o">>)
  /\ brand["u1"].exists
  /\ Truthy(brand["u1"].companyName)
  /\ Len(cur.calls) = 2
  /\ cur.calls[2].endpoint = "/api/report/generate"

-----------------------------------------------------------------------------
(* Plan switches followed by the requests the plan gates *)

NextPlans ==
  \/ \E s \in Sessions : PlanSwitch(s)
  \/ \E s \in Sessions \cup ReadOnlySessions : ExportStart(s)
  \/ \E res \in UpstreamResponses : ExportDownloadResponse(res)
  \/ \E res \in UpstreamResponses : ExportGenerateResponse(res)
  \/ \E s \in Sessions \cup ReadOnlySessions : BrandGet(s)
  \/ \E s \in Sessions : BrandDeleteLogo(s)
  \/ \E s \in Sessions \cup ReadOnlySessions : AutoIndex(s)

SpecPlans == Init /\ [][NextPlans]_vars

\* C21: a plan switch answered 200 persists the plan it names and no other
\* request changes a plan; every export, brand-settings and auto-index
\* request is allowed or refused with 403 by the plan persisted when it
\* starts, whatever plans the user had before.
C21_RequestsUseCurrentPlan ==
  [][(cur.pc = "done" /\ cur' # cur /\ cur'.session \in DOMAIN users) =>
       /\ cur'.op = "planSwitch" =>
            users' = IF cur'.status = 200
                     THEN [users EXCEPT ![cur'.session].planId = cur'.planId]
                     ELSE users
       /\ cur'.op # "planSwitch" => users' = users
       /\ cur'.op = "export" =>
            /\ cur'.status = 403 <=>
                 /\ cur'.format \in {<<"h", "t", "m", "l">>, <<"d", "o", "c", "x">>}
                 /\ users[cur'.session].planId # JsStr(<<"a", "g", "e", "n", "c", "y">>)
            /\ cur'.pc = "awaitDownload" => cur'.planId = users[cur'.session].planId
       /\ cur'.op \in {"brandGet", "brandPut", "brandDeleteLogo"} =>
            (cur'.status = 403 <=> users[cur'.session].planId # JsStr(<<"a", "g", "e", "n", "c", "y">>))
       /\ (/\ cur'.op = "autoIndex"
           /\ cur'.status \in {200, 403}
           /\ JsTrue \in {cur'.update.autoIndexGoogle, cur'.update.autoIndexBing}) =>
            (cur'.status = 403 <=> users[cur'.session].planId = JsStr(<<"f", "r", "e", "e">>))]_vars

\* u1, who signed in on the free plan and is now on agency, has an HTML
\* export under way
C21_Witness ==
  /\ cur.op = "export"
  /\ cur.session = "u1"
  /\ cur.format = <<"h", "t", "m", "l">>
  /\ cur.pc = "awaitDownload"
  /\ cur.planId = JsStr(<<"a", "g", "e", "n", "c", "y">>)
  /\ users["u1"].planId = JsStr(<<"a", "g", "e", "n", "c", "y">>)
  /\ sites["s1"].autoIndexGoogle

\* C22: every site with an auto-index flag on belongs to a user whose
\* current plan has autoIndexing.
C22_FlagsOnlyOnAutoIndexingPlans ==
  \A id \in DOMAIN sites :
    (sites[id].autoIndexGoogle \/ sites[id].autoIndexBing) =>
      /\ sites[id].userId \in DOMAIN users
      /\ \E p \in Plans : p.id = users[sites[id].userId].planId.v /\ p.autoIndexing

-----------------------------------------------------------------------------
(* An auto-index PATCH, one step per database round trip that matters, and *)
(* plan switches of other requests served between its steps                *)

\* PATCH (auto-index) up to and including the plan lookup of its gate
AutoIndexCheck(s) ==
  /\ cur.pc = "done"
  /\ \E siteId \in AutoIndexSiteIds(s), body \in AutoIndexBodies :
       cur' = IF AutoIndexResponse(s, siteId, body).status = 200
              THEN [AutoIndexResponse(s, siteId, body) EXCEPT
                      !.pc = "updateSite", !.status = 0, !.data = NoFlags]
              ELSE AutoIndexResponse(s, siteId, body)
  /\ UNCHANGED <<users, audits, brand, probe, sites, gsc, accounts>>

\* the flags of a site, as the response carries them
FlagsOf(site) ==
  [autoIndexGoogle |-> IF site.autoIndexGoogle THEN JsTrue ELSE JsFalse,
   autoIndexBing |-> IF site.autoIndexBing THEN JsTrue ELSE JsFalse]

\* prisma.site.update and the response
AutoIndexWrite ==
  /\ cur.op = "autoIndex"
  /\ cur.pc = "updateSite"
  /\ sites' = [sites EXCEPT ![cur.siteId] = SiteUpdate(sites[cur.siteId], cur.update)]
  /\ cur' = [cur EXCEPT !.pc = "done", !.status = 200,
                        !.data = FlagsOf(SiteUpdate(sites[cur.siteId], cur.update))]
  /\ UNCHANGED <<users, audits, brand, probe, gsc, accounts>>

\* PATCH (user plan) of another request of s, served at any moment; probe
\* holds its answer
ConcurrentPlanSwitch(s) ==
  /\ \E body \in PlanSwitchBodies :
       /\ probe' = [fn |-> "PATCH plan", response |-> PlanSwitchResponse(s, body)]
       /\ users' = PlanSwitchUsers(s, body)
  /\ UNCHANGED <<audits, brand, cur, sites, gsc, accounts>>

NextRace ==
  \/ \E s \in Sessions \cup ReadOnlySessions : AutoIndexCheck(s)
  \/ AutoIndexWrite
  \/ \E s \in Sessions : ConcurrentPlanSwitch(s)

SpecRace == Init /\ [][NextRace]_vars

\* C23: when an auto-index PATCH writes a flag as true, the plan its caller
\* has at that moment has autoIndexing.
C23_WriteUnderCheckedPlan ==
  [][(/\ cur.op = "autoIndex"
      /\ cur.pc = "updateSite"
      /\ cur'.pc = "done"
      /\ JsTrue \in {cur.update.autoIndexGoogle, cur.update.autoIndexBing}) =>
       \E p \in Plans : p.id = users[cur.session].planId.v /\ p.autoIndexing]_vars

-----------------------------------------------------------------------------
(* Brand settings written from an empty BrandSettings table *)

InitNoBrand ==
  /\ users = InitUsers
  /\ audits = InitAudits
  /\ brand = [u \in UserIds |-> NoBrand]
  /\ cur = Idle
  /\ probe = NoProbe
  /\ sites = InitSites
  /\ gsc = InitGsc
  /\ accounts = InitAccounts

NextBrand ==
  \/ \E s \in Sessions : PlanSwitch(s)
  \/ \E s \in Sessions : BrandPut(s)
  \/ \E s \in Sessions : BrandDeleteLogo(s)
  \/ \E s \in Sessions \cup ReadOnlySessions : BrandGet(s)

SpecBrand == InitNoBrand /\ [][NextBrand]_vars

\* /api/upload/logo/<filename> with a filename of safe characters
CanonicalLogoPath(x) ==
  /\ x.t = "string"
  /\ Len(x.v) > 17
  /\ SubSeq(x.v, 1, 17) = <<"/", "a", "p", "i", "/", "u", "p", "l", "o", "a", "d", "/", "l", "o", "g", "o", "/">>
  /\ \A i \in 18..Len(x.v) : x.v[i] \in SafeNameChars

\* C24: the stored logoUrl of every BrandSettings row is null, empty or a
\* canonical internal path, and an accepted PUT that names a logo has
\* stored a canonical path, not what was sent.
C24_StoredLogoUrlCanonical ==
  /\ \A u \in DOMAIN brand :
       brand[u].exists =>
         \/ brand[u].logoUrl \in {JsNull, JsStr(<<>>)}
         \/ CanonicalLogoPath(brand[u].logoUrl)
  /\ (/\ cur.op = "brandPut"
      /\ cur.status = 200
      /\ cur.body.logoUrl \notin {JsUndef, JsNull, JsStr(<<>>)}) =>
       /\ CanonicalLogoPath(brand[cur.session].logoUrl)
       /\ cur.data.logoUrl = brand[cur.session].logoUrl

C24_Witness ==
  /\ cur.op = "brandPut"
  /\ cur.session = "u1"
  /\ cur.status = 200
  /\ cur.body.logoUrl = JsStr(<<"/", "u", "p", "l", "o", "a", "d", "s", "/", "a", ".", "p", "n", "g">>)
  /\ brand["u1"].exists
  /\ brand["u1"].logoUrl = JsStr(<<"/", "a", "p", "i", "/", "u", "p", "l", "o", "a", "d", "/", "l", "o", "g", "o", "/", "a", ".", "p", "n", "g">>)

-----------------------------------------------------------------------------
(* The filename check of logo-storage against the one of the serving route *)

\* C25: the serving route answers 400 for a filename exactly when
\* extractLogoFilenameFromUrl refuses it as the segment after a recognized
\* prefix, so no path that toApiLogoPath returns is answered 400.
C25_WriteAndServeAgree ==
  /\ (probe.fn = "toApiLogoPath" /\ probe.result # JsNull) =>
       LogoGetResponse(SubSeq(probe.result.v, 18, Len(probe.result.v)), OtherFiles).status # 400
  /\ probe.fn = "GET logo" =>
       (probe.status = 400 <=>
          extractLogoFilenameFromUrl(JsStr(<<"/", "a", "p", "i", "/", "u", "p", "l", "o", "a", "d", "/", "l", "o", "g", "o", "/">> \o probe.filename)) = JsNull)

=============================================================================
